---- MODULE Spec2Model ----
(***************************************************************************)
(* The encrypted-vault subsystem of PromptCat (src/scripts/promptcat.js):  *)
(* CryptoService, the in-memory prompts/folders collections and their      *)
(* IndexedDB mirror, the session password cache, the detail view, and the  *)
(* handlers that lock, unlock, save, move and delete.                      *)
(*                                                                         *)
(* Every handler is one action.  The values a user types into a modal are  *)
(* the action's parameters; the empty password "" stands for every falsy   *)
(* modal result (cancel -> null, empty input -> "", modal busy -> false).  *)
(***************************************************************************)
EXTENDS Integers, Sequences, FiniteSets, TLC

\* ------------------------------------------------------------- bounds
NumFolders == 2
MaxPrompts == 2
\* The number of user actions in a behaviour that starts from any vault,
\* and in one that starts from the vault of InitDeep.
MaxOps == 2
MaxDeepOps == 4
\* The number of user actions in a behaviour that starts from the vault of
\* InitNew.
MaxNewOps == 3

FolderIds == 1..NumFolders
PromptIds == (NumFolders + 1)..(NumFolders + MaxPrompts)
Passwords == {"p", "q"}
NoPassword == ""
PasswordInputs == Passwords \cup {NoPassword}
NoFolder == 0
ObjectString == "[object Object]"

\* ------------------------------------------------------- JS values
\* A JavaScript string is a sequence of UTF-16 code units.  A unit of the
\* model is one of the four below or a piece of ASCII text, which the
\* encoder and the decoder leave as it is.
HighSurrogate == "U+D83D"
LowSurrogate == "U+DE00"
ByteOrderMark == "U+FEFF"
Replacement == "U+FFFD"
\* The scalar value that the surrogate pair stands for.
Astral == "U+1F600"

\* body, notes and passwordCheck hold a string, a {ct, iv, salt} object,
\* null or undefined.  TLC cannot compare a string with a record, so every
\* value is a record of one shape; Throw is not a value but the outcome
\* "the call raised an exception".
Text(units) == [k |-> "str", s |-> units, pw |-> ""]
\* The string whose text is the ASCII text s.
Str(s) == Text(IF s = "" THEN <<>> ELSE <<s>>)
Null == [k |-> "null", s |-> <<>>, pw |-> ""]
Undefined == [k |-> "undef", s |-> <<>>, pw |-> ""]
Throw == [k |-> "throw", s |-> <<>>, pw |-> ""]
\* The object encrypt returns: AES-GCM of plaintext pt under a key derived
\* from password pw (salt and iv are not distinguished here).
Ciphertext(pt, pw) == [k |-> "ct", s |-> pt, pw |-> pw]

IsCiphertext(v) == v.k = "ct"
IsString(v) == v.k = "str"
\* JavaScript truthiness of a value (!text is its negation).
Truthy(v) == v.k = "ct" \/ (v.k = "str" /\ v.s # <<>>)
\* String(id)
IdString(id) == Str(ToString(id))
\* The units of a string, written one after the other.
RECURSIVE Flat(_)
Flat(units) == IF units = <<>> THEN "" ELSE Head(units) \o Flat(Tail(units))

\* The scalar values of a string: a surrogate pair is its scalar value,
\* a surrogate that is not part of a pair is U+FFFD, and any other unit is
\* itself.
RECURSIVE Scalars(_)
Scalars(s) ==
    IF s = <<>> THEN <<>>
    ELSE IF Len(s) > 1 /\ s[1] = HighSurrogate /\ s[2] = LowSurrogate
    THEN <<Astral>> \o Scalars(Tail(Tail(s)))
    ELSE IF s[1] \in {HighSurrogate, LowSurrogate}
    THEN <<Replacement>> \o Scalars(Tail(s))
    ELSE <<s[1]>> \o Scalars(Tail(s))

\* TextEncoder.encode(s): the scalar values of s, written as UTF-8.
encode(s) ==
    IF \A i \in DOMAIN s : s[i] \notin {HighSurrogate, LowSurrogate}
    THEN s
    ELSE Scalars(s)

\* The UTF-16 code units of a sequence of scalar values.
RECURSIVE CodeUnits(_)
CodeUnits(scalars) ==
    IF \A i \in DOMAIN scalars : scalars[i] # Astral THEN scalars
    ELSE (IF scalars[1] = Astral THEN <<HighSurrogate, LowSurrogate>>
          ELSE <<scalars[1]>>) \o CodeUnits(Tail(scalars))

\* new TextDecoder().decode(bytes): ignoreBOM is false, so a byte order
\* mark at the start is not part of the string returned.
decode(bytes) ==
    CodeUnits(IF bytes # <<>> /\ bytes[1] = ByteOrderMark THEN Tail(bytes)
              ELSE bytes)

\* TextEncoder.encode(x) and textarea.value = x coerce x to a string.
EncodeText(v) == encode(IF v.k = "str" THEN v.s ELSE <<ObjectString>>)
TextareaValue(v) ==
    CASE v.k = "str" -> Flat(v.s)
      [] v.k = "null" -> ""
      [] v.k = "undef" -> "undefined"
      [] OTHER -> ObjectString

\* ------------------------------------------------------ CryptoService
\* A cipher that stores every text as it is given.
StoredAsGiven(text, password) == text

encrypt(text, password) ==
    IF ~Truthy(text) \/ password = NoPassword
    THEN text
    ELSE Ciphertext(EncodeText(text), password)

\* A cipher whose decryption does not depend on the password.
decryptUnderAnyPassword(encryptedData, password) ==
    IF encryptedData.k # "ct" \/ password = NoPassword
    THEN encryptedData
    ELSE Text(decode(encryptedData.s))

decrypt(encryptedData, password) ==
    IF encryptedData.k = "null"
    THEN Throw \* typeof null === "object", so null.ct is read: TypeError
    ELSE IF encryptedData.k # "ct" \/ password = NoPassword
    THEN encryptedData
    ELSE IF encryptedData.pw = password
    THEN Text(decode(encryptedData.s))
    ELSE Null

\* ------------------------------------------------------------- state
VARIABLES
    prompts,          \* state.prompts, by id
    folders,          \* state.folders, by id
    dbPrompts,        \* the "prompts" object store
    dbFolders,        \* the "folders" object store
    sessionPasswords, \* state.sessionPasswords, by entity id
    currentPromptId,  \* state.currentPromptId (0 for null)
    isCreatingNew,    \* state.isCreatingNew
    newPromptLockInfo,\* state.newPromptLockInfo.password ("" for null)
    uiBody,           \* UI.promptBody.value
    uiNotes,          \* UI.promptNotes.value
    uiLockChecked,    \* UI.promptLockSwitch.checked
    uiLockDisabled,   \* UI.promptLockSwitch.disabled
    closePending,     \* the timer of _internalCloseDetailsView is armed
    decryptedCache,   \* state.decryptedCache, by prompt id
    clipboard,        \* what navigator.clipboard.writeText was last given
    lastId,           \* the largest id Date.now() has given a prompt
    displayedWith,    \* history: the password the last handler decrypted the
                      \* shown body and notes with ("" if it decrypted none)
    orig,             \* history: the plaintext the user gave each prompt
    lockPw,           \* history: the password each entity was last locked with
    lastOp,           \* history: the last user action and what it was given
    opsLeft,          \* history: the user actions the behaviour may still take
    globalTags,       \* state.globalTags
    dbTags,           \* the "globalTags" object store, by id
    exportFile,       \* the backup file handleExport last wrote
    cipherIn,         \* a call of CryptoService: the text or encryptedData
    cipherPw,         \* a call of CryptoService: the password
    cipherOut,        \* what the calls made have returned, or Throw
    modalClass,       \* UI.genericModal.classList: "hidden", "show", "closing"
    dialog,           \* the dialog whose listeners are on the modal's buttons
    caller,           \* the handler that awaits ModalService or CryptoService
    inFlight,         \* the calls of validate that have not returned
    outcome,          \* history: what the caller's alert and prompt came to
    lockRun,          \* a call of handleToggleFolderLock and the await it is at
    dropRun,          \* a call of handleDrop and the await it is at
    drawn,            \* the salt and iv pairs window.crypto has given so far
    pairOf,           \* the pair in the {ct, iv, salt} a field holds, by place
    query,            \* getSearchQuery(): the search box, trimmed, in lower case
    matchContext      \* prompt.matchContext in memory ("mem"), in the store
                      \* ("db") and in the file of a bulk export ("file")

\* What the handlers read and write, with the two histories they feed.
state == <<prompts, folders, dbPrompts, dbFolders, sessionPasswords,
           currentPromptId, isCreatingNew, newPromptLockInfo, uiBody, uiNotes,
           uiLockChecked, uiLockDisabled, closePending, decryptedCache,
           clipboard, lastId, displayedWith, orig, lockPw>>

\* The tags and the backup file.
backup == <<globalTags, dbTags, exportFile>>

\* A caller of CryptoService on its own.
cipher == <<cipherIn, cipherPw, cipherOut>>

\* ModalService and the handler that awaits it.
modalService == <<modalClass, dialog, caller, inFlight, outcome>>

\* The handlers that are followed from one await to the next.
suspended == <<lockRun, dropRun>>

\* The random values drawn and where they are kept.
random == <<drawn, pairOf>>

\* The search box and what a search leaves on the prompts.
search == <<query, matchContext>>

\* What the handlers of the vault leave alone.
aux == <<backup, cipher, modalService, suspended, random, search>>

vars == <<state, lastOp, opsLeft, aux>>

\* The widgets of the detail view.
ui == <<uiBody, uiNotes, uiLockChecked, uiLockDisabled>>

NoPrompt == [exists |-> FALSE, body |-> Undefined, notes |-> Undefined,
             folderId |-> NoFolder, isLocked |-> FALSE,
             passwordCheck |-> Undefined]
NoFolderRecord == [exists |-> FALSE, isLocked |-> FALSE,
                   passwordCheck |-> Undefined]

\* No backup file has been written.
NoFile == [exists |-> FALSE, prompts |-> <<>>, folders |-> <<>>,
           globalTags |-> {}, stores |-> <<>>, orig |-> <<>>, lockPw |-> <<>>]

\* An entry of state.decryptedCache, and the lack of one.
NoEntry == [cached |-> FALSE, body |-> Undefined, notes |-> Undefined]
Entry(body, notes) == [cached |-> TRUE, body |-> body, notes |-> notes]
EmptyCache == [p \in PromptIds |-> NoEntry]

\* The texts a user types as body and as notes.
BodyTexts == {"a"}
NotesTexts == {"", "n"}

\* The vault the program loads at start (loadData): one that earlier
\* sessions left in the store.  Folders are unlocked or were locked with
\* StoredPassword; a prompt in a locked folder was encrypted by that lock; a
\* prompt elsewhere is plaintext or was locked with its own StoredPassword.
StoredPassword(e) == IF e % 2 = 1 THEN "p" ELSE "q"
StoredNotes(p) == IF p % 2 = 1 THEN "n" ELSE ""

StoredFolder(f, lockedFolders) ==
    IF f \in lockedFolders
    THEN [exists |-> TRUE, isLocked |-> TRUE,
          passwordCheck |-> Ciphertext(EncodeText(IdString(f)), StoredPassword(f))]
    ELSE [exists |-> TRUE, isLocked |-> FALSE, passwordCheck |-> Null]

StoredPrompt(p, folderId, lockedFolders, lockedPrompts) ==
    LET password == IF folderId \in lockedFolders THEN StoredPassword(folderId)
                    ELSE IF p \in lockedPrompts THEN StoredPassword(p)
                    ELSE NoPassword
        own == folderId \notin lockedFolders /\ p \in lockedPrompts
    IN [exists |-> TRUE,
        body |-> IF password = NoPassword THEN Str("a")
                 ELSE Ciphertext(EncodeText(Str("a")), password),
        notes |-> IF password = NoPassword \/ StoredNotes(p) = ""
                  THEN Str(StoredNotes(p))
                  ELSE Ciphertext(EncodeText(Str(StoredNotes(p))), password),
        folderId |-> folderId, isLocked |-> own,
        passwordCheck |-> IF own THEN Ciphertext(EncodeText(IdString(p)), StoredPassword(p))
                          ELSE Undefined]

NoOp == [op |-> "none", id |-> 0, pw |-> NoPassword, wrong |-> FALSE,
         selected |-> {}, skipped |-> {}, dest |-> NoFolder,
         before |-> [p \in PromptIds |-> NoPrompt], closing |-> FALSE,
         had |-> {}]

\* loadData() of a stored vault and the state the constructor leaves: no
\* prompt open, no session password, nothing in the detail view.
Loaded(lockedFolders, n, place, lockedPrompts) ==
    /\ folders = [f \in FolderIds |-> StoredFolder(f, lockedFolders)]
    /\ prompts = [p \in PromptIds |->
                    IF p <= NumFolders + n
                    THEN StoredPrompt(p, place[p], lockedFolders, lockedPrompts)
                    ELSE NoPrompt]
    /\ lockPw = [e \in FolderIds \cup PromptIds |->
                   IF e \in lockedFolders \cup lockedPrompts
                   THEN StoredPassword(e) ELSE NoPassword]
    /\ dbPrompts = prompts
    /\ dbFolders = folders
    /\ sessionPasswords = [e \in FolderIds \cup PromptIds |-> NoPassword]
    /\ currentPromptId = 0
    /\ isCreatingNew = FALSE
    /\ newPromptLockInfo = NoPassword
    /\ uiBody = ""
    /\ uiNotes = ""
    /\ uiLockChecked = FALSE
    /\ uiLockDisabled = FALSE
    /\ closePending = FALSE
    /\ decryptedCache = EmptyCache
    /\ clipboard = Undefined
    /\ lastId = NumFolders + n
    /\ displayedWith = NoPassword
    /\ orig = [p \in PromptIds |->
                 IF prompts[p].exists
                 THEN [body |-> "a", notes |-> StoredNotes(p)]
                 ELSE [body |-> "", notes |-> ""]]
    /\ lastOp = NoOp
    /\ globalTags = {}
    /\ dbTags = {}
    /\ exportFile = NoFile

\* No call of CryptoService on its own.
NotCalled == [op |-> "none", value |-> Undefined]
CipherIdle ==
    /\ cipherIn = Undefined
    /\ cipherPw = NoPassword
    /\ cipherOut = NotCalled

\* No dialog: `hidden` is the class list without "show", `closing` the one
\* with "show" and "closing".
NoDialog == [type |-> "none", error |-> FALSE, remember |-> FALSE]
NoCaller == [handler |-> "none", at |-> "idle", pw |-> NoPassword]
\* What the promise of the validated prompt has resolved with.
NotResolved == [k |-> "pending", password |-> NoPassword, remember |-> FALSE]
ResolvedFalse == [k |-> "false", password |-> NoPassword, remember |-> FALSE]
ResolvedNull == [k |-> "null", password |-> NoPassword, remember |-> FALSE]
Resolved(password, remember) ==
    [k |-> "object", password |-> password, remember |-> remember]
NoOutcome == [wrong |-> FALSE, alert |-> "none", result |-> NotResolved,
              cancelled |-> FALSE]

ModalIdle ==
    /\ modalClass = "hidden"
    /\ dialog = NoDialog
    /\ caller = NoCaller
    /\ inFlight = {}
    /\ outcome = NoOutcome

\* No handler is suspended at an await.
NoLockRun == [at |-> "idle", f |-> 0, password |-> NoPassword, all |-> {},
              todo |-> <<>>, arg |-> Undefined, overlapped |-> FALSE]
NoDropRun == [at |-> "idle", p |-> 0]
NoneSuspended ==
    /\ lockRun = NoLockRun
    /\ dropRun = NoDropRun

\* The fields that can hold a {ct, iv, salt} object, in memory ("mem") and
\* in the object stores ("db").
CipherFields == (FolderIds \X {"passwordCheck"})
                \cup (PromptIds \X {"body", "notes", "passwordCheck"})
Places == {<<copy, field[1], field[2]>> : copy \in {"mem", "db"}, field \in CipherFields}

\* Each field of a stored vault was encrypted by a call of its own: the
\* pair of the field of id e is one of the three drawn for e.
StoredPair(e, name) ==
    (e - 1) * 3 + (CASE name = "body" -> 1 [] name = "notes" -> 2 [] OTHER -> 3)
RandomAtLoad ==
    /\ drawn = (NumFolders + MaxPrompts) * 3
    /\ pairOf = [pl \in Places |-> StoredPair(pl[2], pl[3])]

\* No search has been made: the search box is empty and no prompt has a
\* matchContext ("" stands for undefined as well).
NoContext == [p \in PromptIds |-> ""]
NoSearch ==
    /\ query = ""
    /\ matchContext = [copy \in {"mem", "db", "file"} |-> NoContext]

\* Nothing but the vault and its handlers is at work.
Idle == CipherIdle /\ ModalIdle /\ NoneSuspended /\ RandomAtLoad /\ NoSearch

\* Every stored vault of the bounds, and MaxOps user actions.
Init ==
    /\ Idle
    /\ \E lockedFolders \in SUBSET FolderIds :
       \E n \in 1..MaxPrompts :
       \E place \in [PromptIds -> FolderIds \cup {NoFolder}] :
       \E lockedPrompts \in SUBSET PromptIds :
          /\ \A p \in PromptIds :
                /\ p > NumFolders + n => place[p] = NoFolder /\ p \notin lockedPrompts
                /\ place[p] \in lockedFolders => p \notin lockedPrompts
          /\ Loaded(lockedFolders, n, place, lockedPrompts)
    /\ opsLeft = MaxOps

\* One stored vault and longer behaviours: the first folder is locked and
\* holds every prompt but the last, which is outside the folders and has a
\* lock of its own.
InitDeep ==
    /\ Idle
    /\ Loaded({1}, MaxPrompts,
              [p \in PromptIds |->
                 IF p = NumFolders + MaxPrompts THEN NoFolder ELSE 1],
              {NumFolders + MaxPrompts})
    /\ opsLeft = MaxDeepOps

\* One stored vault with room for a new prompt: the first folder is locked
\* and holds the only prompt.
InitNew ==
    /\ Idle
    /\ Loaded({1}, 1,
              [p \in PromptIds |-> IF p = NumFolders + 1 THEN 1 ELSE NoFolder],
              {})
    /\ opsLeft = MaxNewOps

\* ------------------------------------------------------------ helpers
\* state.folders.find((f) => f.id === prompt.folderId), then folder.isLocked
LockedByFolder(pr, fs) ==
    /\ pr.folderId # NoFolder
    /\ fs[pr.folderId].exists
    /\ fs[pr.folderId].isLocked

\* (folder && folder.isLocked) || prompt.isLocked
EffectivelyLocked(pr, fs) == LockedByFolder(pr, fs) \/ pr.isLocked

\* The id of the entity whose password governs the prompt: its folder when
\* that is locked, else the prompt.
OwnerId(p, ps, fs) == IF LockedByFolder(ps[p], fs) THEN ps[p].folderId ELSE p

\* A challenge that always takes the prompt's own passwordCheck.
OwnCheck(p, ps, fs) == ps[p].passwordCheck

OwnerCheck(p, ps, fs) ==
    IF LockedByFolder(ps[p], fs)
    THEN fs[ps[p].folderId].passwordCheck
    ELSE ps[p].passwordCheck

\* state.prompts.filter((p) => p.folderId === folder.id)
PromptsIn(f, ps) == {p \in PromptIds : ps[p].exists /\ ps[p].folderId = f}

\* The array order of state.prompts: ids are Date.now() at creation.
RECURSIVE ArrayOrder(_)
ArrayOrder(S) ==
    IF S = {}
    THEN <<>>
    ELSE LET m == CHOOSE x \in S : \A y \in S : x <= y
         IN <<m>> \o ArrayOrder(S \ {m})

\* A passwordCheck made of a fixed text instead of the entity's id.
FixedPasswordCheck(id, password) == encrypt(Str("check"), password)

\* A check value that is the password itself.
PasswordAsCheck(id, password) == Str(password)

\* passwordCheck = await CryptoService.encrypt(String(item.id), password)
NewPasswordCheck(id, password) == encrypt(IdString(id), password)

\* A handler that does not verify the password it is given.
PasswordNotChecked(passwordCheck, id, password) == FALSE

\* check !== String(item.id), where check = await decrypt(passwordCheck, password)
PasswordRejected(passwordCheck, id, password) ==
    decrypt(passwordCheck, password) # IdString(id)

\* DB.bulkPut(DB.STORES.PROMPTS, items) / DB.put
bulkPut(store, S, ps) == [p \in PromptIds |-> IF p \in S THEN ps[p] ELSE store[p]]

\* for (const p of promptsToUpdate) { p.body = await decrypt(p.body, password);
\*                                    p.notes = await decrypt(p.notes, password); }
\* An exception leaves what was assigned so far and ends the handler.
RECURSIVE DecryptEach(_, _, _)
DecryptEach(ids, ps, password) ==
    IF ids = <<>>
    THEN [ps |-> ps, thrown |-> FALSE]
    ELSE LET p == Head(ids)
             b == decrypt(ps[p].body, password)
             n == decrypt(ps[p].notes, password)
         IN IF b = Throw
            THEN [ps |-> ps, thrown |-> TRUE]
            ELSE IF n = Throw
            THEN [ps |-> [ps EXCEPT ![p].body = b], thrown |-> TRUE]
            ELSE DecryptEach(Tail(ids),
                             [ps EXCEPT ![p].body = b, ![p].notes = n],
                             password)

\* for (const p of promptsToUpdate) { p.body = await encrypt(p.body, password);
\*                                    p.notes = await encrypt(p.notes, password); }
EncryptEach(S, ps, password) ==
    [p \in PromptIds |->
        IF p \in S
        THEN [ps[p] EXCEPT !.body = encrypt(ps[p].body, password),
                           !.notes = encrypt(ps[p].notes, password)]
        ELSE ps[p]]

\* --------------------------------------------------- the detail view
\* What the user answers if renderPromptDetails or handlePromptListClick
\* shows the validated password modal: password "" is a cancel.
ModalResults == [password : PasswordInputs, remember : BOOLEAN]
NoModal == [password |-> NoPassword, remember |-> FALSE]

\* validate: check === String(item.id)
Validates(check, id, pwd) ==
    pwd # NoPassword /\ decrypt(check, pwd) = IdString(id)

\* The prompts whose content a validated password is cached for: those of
\* the folder if it is locked, else the prompt alone.
PromptsToCache(p, ps, fs) ==
    IF LockedByFolder(ps[p], fs) THEN PromptsIn(ps[p].folderId, ps) ELSE {p}

\* for (const p of promptsToCache) {
\*   state.decryptedCache[p.id] = { body: await decrypt(p.body, password),
\*                                  notes: await decrypt(p.notes, password) }; }
\* An exception leaves the entries made so far and ends the handler.
RECURSIVE CacheEach(_, _, _, _)
CacheEach(ids, cache, ps, password) ==
    IF ids = <<>>
    THEN [cache |-> cache, thrown |-> FALSE]
    ELSE LET p == Head(ids)
             b == decrypt(ps[p].body, password)
             n == decrypt(ps[p].notes, password)
         IN IF b = Throw \/ n = Throw
            THEN [cache |-> cache, thrown |-> TRUE]
            ELSE CacheEach(Tail(ids), [cache EXCEPT ![p] = Entry(b, n)],
                           ps, password)

\* The caching loops of renderPromptDetails and handlePromptListClick raise
\* an exception when a decrypt does.
CacheThrows(p, ps, fs, password) ==
    CacheEach(ArrayOrder(PromptsToCache(p, ps, fs)), EmptyCache, ps,
              password).thrown

\* renderPromptDetails(true, temporaryPassword) on the collections ps, fs
\* with session passwords sp and decrypted cache, for the view [cur,
\* creating, lockInfo]: the session passwords, the cache and the widgets
\* after it, the password it decrypted the shown fields with, and whether it
\* called _internalCloseDetailsView.  An exception ends it where it is
\* raised.
renderPromptDetails(ps, fs, sp, cache, view, temporaryPassword, modal) ==
    LET same == [sp |-> sp, cache |-> cache, uiBody |-> uiBody,
                 uiNotes |-> uiNotes, checked |-> uiLockChecked,
                 disabled |-> uiLockDisabled, used |-> NoPassword,
                 close |-> FALSE]
        cur == view.cur
    IN IF view.creating
       THEN [same EXCEPT !.uiBody = "", !.uiNotes = "",
                         !.checked = (view.lockInfo # NoPassword),
                         !.disabled = FALSE]
       ELSE IF cur = 0 \/ ~ps[cur].exists
       THEN same
       ELSE
       LET prompt == ps[cur]
           isLockedByFolder == LockedByFolder(prompt, fs)
           isLocked == EffectivelyLocked(prompt, fs)
           key == OwnerId(cur, ps, fs)
           remembered == IF temporaryPassword # NoPassword
                         THEN temporaryPassword ELSE sp[key]
           asked == isLocked /\ remembered = NoPassword
           password == IF asked THEN modal.password ELSE remembered
           sp1 == IF asked /\ modal.remember
                  THEN [sp EXCEPT ![key] = password] ELSE sp
           cached == IF asked
                     THEN CacheEach(ArrayOrder(PromptsToCache(cur, ps, fs)),
                                    cache, ps, password)
                     ELSE [cache |-> cache, thrown |-> FALSE]
           body == IF isLocked THEN decrypt(prompt.body, password) ELSE prompt.body
           notes == IF isLocked THEN decrypt(prompt.notes, password)
                    ELSE IF Truthy(prompt.notes) THEN prompt.notes ELSE Str("")
           used == IF isLocked THEN password ELSE NoPassword
       IN IF asked /\ modal.password = NoPassword
          THEN [same EXCEPT !.close = TRUE]
          ELSE IF cached.thrown \/ body = Throw
          THEN [same EXCEPT !.sp = sp1, !.cache = cached.cache]
          ELSE IF notes = Throw
          THEN [same EXCEPT !.sp = sp1, !.cache = cached.cache,
                            !.uiBody = TextareaValue(body), !.used = used]
          ELSE [sp |-> sp1, cache |-> cached.cache,
                uiBody |-> TextareaValue(body),
                uiNotes |-> TextareaValue(notes),
                checked |-> prompt.isLocked, disabled |-> isLockedByFolder,
                used |-> used, close |-> FALSE]

\* Whether renderPromptDetails shows its password modal.
ModalShown(ps, fs, sp, view, temporaryPassword) ==
    /\ ~view.creating /\ view.cur # 0 /\ ps[view.cur].exists
    /\ EffectivelyLocked(ps[view.cur], fs)
    /\ temporaryPassword = NoPassword
    /\ sp[OwnerId(view.cur, ps, fs)] = NoPassword

\* The modal resolves with a password only if validate accepted it; a
\* modal that is not shown has no result.
ModalAllowed(ps, fs, sp, view, temporaryPassword, modal) ==
    IF ModalShown(ps, fs, sp, view, temporaryPassword)
    THEN \/ modal.password = NoPassword /\ ~modal.remember
         \/ Validates(OwnerCheck(view.cur, ps, fs), OwnerId(view.cur, ps, fs),
                      modal.password)
    ELSE modal = NoModal

\* The view the handlers start in.
View == [cur |-> currentPromptId, creating |-> isCreatingNew,
         lockInfo |-> newPromptLockInfo]

\* renderPromptDetails as the last step of a handler: it sets the session
\* passwords, the decrypted cache, the widgets and the close timer.
Rendered(ps, fs, sp, cache, view, temporaryPassword, modal, closing) ==
    /\ ModalAllowed(ps, fs, sp, view, temporaryPassword, modal)
    /\ \E r \in {renderPromptDetails(ps, fs, sp, cache, view, temporaryPassword,
                                      modal)} :
          /\ sessionPasswords' = r.sp
          /\ decryptedCache' = r.cache
          /\ displayedWith' = r.used
          /\ uiBody' = r.uiBody
          /\ uiNotes' = r.uiNotes
          /\ uiLockChecked' = r.checked
          /\ uiLockDisabled' = r.disabled
          /\ closePending' = (closePending \/ closing \/ r.close)

\* updateUI(): renderPromptDetails(state.isCreatingNew || !!state.currentPromptId)
updateUI(ps, fs, view, modal) ==
    Rendered(ps, fs, sessionPasswords, decryptedCache, view, NoPassword, modal,
             FALSE)

\* ------------------------------------------------------------ handlers
handleToggleFolderLock(f, password, modal) ==
    LET folder == folders[f]
        S == PromptsIn(f, prompts)
    IN
    /\ folder.exists
    /\ IF password = NoPassword
       THEN modal = NoModal /\ UNCHANGED state
       ELSE IF folder.isLocked
       THEN \* Unlock
            IF PasswordRejected(folder.passwordCheck, f, password)
            THEN modal = NoModal /\ UNCHANGED state
            ELSE LET fs == [folders EXCEPT ![f].isLocked = FALSE,
                                           ![f].passwordCheck = Null]
                     r == DecryptEach(ArrayOrder(S), prompts, password)
                 IN /\ folders' = fs
                    /\ prompts' = r.ps
                    /\ UNCHANGED <<currentPromptId, isCreatingNew,
                                   newPromptLockInfo, orig, lockPw, clipboard,
                                   lastId>>
                    /\ IF r.thrown
                       THEN /\ modal = NoModal
                            /\ displayedWith' = NoPassword
                            /\ UNCHANGED <<dbPrompts, dbFolders, sessionPasswords,
                                           ui, closePending, decryptedCache>>
                       ELSE /\ dbPrompts' = bulkPut(dbPrompts, S, r.ps)
                            /\ dbFolders' = [dbFolders EXCEPT ![f] = fs[f]]
                            /\ updateUI(r.ps, fs, View, modal)
       ELSE \* Lock
            LET fs == [folders EXCEPT
                         ![f].isLocked = TRUE,
                         ![f].passwordCheck = NewPasswordCheck(f, password)]
                ps == EncryptEach(S, prompts, password)
            IN /\ folders' = fs
               /\ prompts' = ps
               /\ dbPrompts' = bulkPut(dbPrompts, S, ps)
               /\ dbFolders' = [dbFolders EXCEPT ![f] = fs[f]]
               /\ lockPw' = [lockPw EXCEPT ![f] = password]
               /\ UNCHANGED <<currentPromptId, isCreatingNew, newPromptLockInfo,
                              orig, clipboard, lastId>>
               /\ updateUI(ps, fs, View, modal)

\* The folders a dropdown or the sidebar offers, and "all" (no folder).
IsFolderOption(folderId) ==
    IF folderId = NoFolder THEN TRUE ELSE folders[folderId].exists

\* The collections and their store.
data == <<prompts, folders, dbPrompts, dbFolders>>

\* openPromptDetailsView(isNew, promptId, temporaryPassword), with the
\* session passwords sp and the decrypted cache its caller has just set.
openPromptDetailsView(isNew, promptId, temporaryPassword, sp, cache) ==
    /\ isCreatingNew' = isNew
    /\ currentPromptId' = promptId
    /\ newPromptLockInfo' = NoPassword
    /\ Rendered(prompts, folders, sp, cache,
                [cur |-> promptId, creating |-> isNew, lockInfo |-> NoPassword],
                temporaryPassword, NoModal, FALSE)

\* !result of a password modal: the user cancelled it.
Cancelled(modal) == modal.password = NoPassword

\* A click on a list item outside select mode (lines 2099-2163).
handlePromptListClick(p, modal) ==
    LET prompt == prompts[p]
        key == OwnerId(p, prompts, folders)
        asked == /\ EffectivelyLocked(prompt, folders)
                 /\ sessionPasswords[key] = NoPassword
        sp1 == IF asked /\ modal.remember
               THEN [sessionPasswords EXCEPT ![key] = modal.password]
               ELSE sessionPasswords
        cached == IF asked
                  THEN CacheEach(ArrayOrder(PromptsToCache(p, prompts, folders)),
                                 decryptedCache, prompts, modal.password)
                  ELSE [cache |-> decryptedCache, thrown |-> FALSE]
    IN
    /\ prompt.exists
    /\ IF asked
       THEN \/ modal.password = NoPassword /\ ~modal.remember
            \/ Validates(OwnerCheck(p, prompts, folders), key, modal.password)
       ELSE modal = NoModal
    /\ IF asked /\ Cancelled(modal)
       THEN UNCHANGED state
       ELSE IF cached.thrown
       THEN /\ sessionPasswords' = sp1
            /\ decryptedCache' = cached.cache
            /\ displayedWith' = NoPassword
            /\ UNCHANGED <<data, currentPromptId, isCreatingNew, newPromptLockInfo,
                           ui, closePending, orig, lockPw, clipboard, lastId>>
       ELSE /\ openPromptDetailsView(FALSE, p, modal.password, sp1, cached.cache)
            /\ UNCHANGED <<data, orig, lockPw, clipboard, lastId>>

\* Date.now() of the next creation: an id no prompt has had.
NextPromptId == lastId + 1

\* The "new prompt" buttons (lines 1222-1234).
handleNewPromptClick ==
    /\ openPromptDetailsView(TRUE, 0, NoPassword, sessionPasswords, decryptedCache)
    /\ UNCHANGED <<data, orig, lockPw, clipboard, lastId>>

\* The change event of the lock switch; the click has already flipped it.
handlePromptLockToggle(password) ==
    LET isChecked == ~uiLockChecked
        p == currentPromptId
        prompt == prompts[p]
        texts == <<uiBody, uiNotes>>
    IN
    /\ isCreatingNew \/ currentPromptId # 0
    /\ ~uiLockDisabled
    /\ IF isCreatingNew
       THEN /\ IF isChecked
               THEN IF password # NoPassword
                    THEN newPromptLockInfo' = password /\ uiLockChecked' = TRUE
                    ELSE UNCHANGED <<newPromptLockInfo, uiLockChecked>>
               ELSE /\ password = NoPassword
                    /\ newPromptLockInfo' = NoPassword
                    /\ uiLockChecked' = FALSE
            /\ UNCHANGED <<data, sessionPasswords, currentPromptId, isCreatingNew,
                           uiBody, uiNotes, uiLockDisabled, closePending,
                           decryptedCache, displayedWith, orig, lockPw, clipboard,
                           lastId>>
       ELSE IF ~prompt.exists
       THEN /\ password = NoPassword
            /\ uiLockChecked' = isChecked
            /\ UNCHANGED <<data, sessionPasswords, currentPromptId, isCreatingNew,
                           newPromptLockInfo, uiBody, uiNotes, uiLockDisabled,
                           closePending, decryptedCache, displayedWith, orig,
                           lockPw, clipboard, lastId>>
       ELSE IF password = NoPassword
       THEN UNCHANGED state \* e.target.checked is put back
       ELSE IF isChecked
       THEN \* Locking
            LET ps == [prompts EXCEPT
                         ![p].isLocked = TRUE,
                         ![p].body = encrypt(Str(uiBody), password),
                         ![p].notes = encrypt(Str(uiNotes), password),
                         ![p].passwordCheck = NewPasswordCheck(p, password)]
            IN /\ prompts' = ps
               /\ dbPrompts' = [dbPrompts EXCEPT ![p] = ps[p]]
               /\ uiLockChecked' = TRUE
               /\ lockPw' = [lockPw EXCEPT ![p] = password]
               /\ displayedWith' = NoPassword
               /\ UNCHANGED <<folders, dbFolders, sessionPasswords, currentPromptId,
                              isCreatingNew, newPromptLockInfo, uiBody, uiNotes,
                              uiLockDisabled, closePending, decryptedCache, orig,
                              clipboard, lastId>>
       ELSE \* Unlocking
            LET check == decrypt(prompt.passwordCheck, password)
                b == decrypt(prompt.body, password)
                n == decrypt(prompt.notes, password)
                ps0 == [prompts EXCEPT ![p].isLocked = FALSE]
                ps1 == [ps0 EXCEPT ![p].body = b]
                ps2 == [ps1 EXCEPT ![p].notes = n, ![p].passwordCheck = Undefined]
                shownBody == decrypt(b, password)
                shownNotes == decrypt(n, password)
            IN /\ UNCHANGED <<folders, dbFolders, sessionPasswords, currentPromptId,
                              isCreatingNew, newPromptLockInfo, uiLockDisabled,
                              closePending, decryptedCache, orig, lockPw, clipboard,
                              lastId>>
               /\ displayedWith' = NoPassword
               /\ IF check = Throw
                  THEN /\ uiLockChecked' = FALSE
                       /\ UNCHANGED <<prompts, dbPrompts, uiBody, uiNotes>>
                  ELSE IF PasswordRejected(prompt.passwordCheck, p, password)
                  THEN UNCHANGED <<prompts, dbPrompts, uiBody, uiNotes, uiLockChecked>>
                  ELSE /\ uiLockChecked' = FALSE
                       /\ prompts' = IF b = Throw THEN ps0
                                     ELSE IF n = Throw THEN ps1 ELSE ps2
                       /\ dbPrompts' = IF b = Throw \/ n = Throw THEN dbPrompts
                                       ELSE [dbPrompts EXCEPT ![p] = ps2[p]]
                       /\ uiBody' = IF b = Throw \/ n = Throw \/ shownBody = Throw
                                    THEN uiBody ELSE TextareaValue(shownBody)
                       /\ uiNotes' = IF b = Throw \/ n = Throw \/ shownBody = Throw
                                        \/ shownNotes = Throw
                                     THEN uiNotes ELSE TextareaValue(shownNotes)

\* The save button: folderId is the folder chosen in the dropdown, title
\* what the title field holds, body and notes what the text areas hold.
handleSavePrompt(folderId, title, body, notes, modal) ==
    LET id == NextPromptId
        password == newPromptLockInfo
        created == IF newPromptLockInfo # NoPassword
                   THEN [exists |-> TRUE,
                         body |-> encrypt(Str(body), password),
                         notes |-> encrypt(Str(notes), password),
                         folderId |-> folderId, isLocked |-> TRUE,
                         passwordCheck |-> NewPasswordCheck(id, password)]
                   ELSE [exists |-> TRUE, body |-> Str(body), notes |-> Str(notes),
                         folderId |-> folderId, isLocked |-> FALSE,
                         passwordCheck |-> Undefined]
        cur == currentPromptId
        remembered == IF folderId # NoFolder /\ sessionPasswords[folderId] # NoPassword
                      THEN sessionPasswords[folderId]
                      ELSE sessionPasswords[cur]
        saved == [prompts[cur] EXCEPT
                    !.body = IF remembered # NoPassword
                             THEN encrypt(Str(body), remembered) ELSE Str(body),
                    !.notes = IF remembered # NoPassword
                              THEN encrypt(Str(notes), remembered) ELSE Str(notes),
                    !.folderId = folderId]
    IN
    /\ IsFolderOption(folderId)
    /\ IF isCreatingNew
       THEN id \in PromptIds
       ELSE cur # 0 /\ prompts[cur].exists /\ body = uiBody /\ notes = uiNotes
    /\ IF title = "" /\ body = "" /\ notes = ""
       THEN modal = NoModal /\ UNCHANGED state
       ELSE LET p == IF isCreatingNew THEN id ELSE cur
                ps == [prompts EXCEPT ![p] = IF isCreatingNew THEN created ELSE saved]
            IN /\ prompts' = ps
               /\ dbPrompts' = [dbPrompts EXCEPT ![p] = ps[p]]
               /\ orig' = IF isCreatingNew
                          THEN [orig EXCEPT ![p] = [body |-> body, notes |-> notes]]
                          ELSE orig
               /\ lockPw' = IF isCreatingNew /\ newPromptLockInfo # NoPassword
                            THEN [lockPw EXCEPT ![p] = password] ELSE lockPw
               /\ lastId' = IF isCreatingNew THEN id ELSE lastId
               /\ UNCHANGED <<folders, dbFolders, currentPromptId, isCreatingNew,
                              newPromptLockInfo, clipboard>>
               /\ Rendered(ps, folders, sessionPasswords, decryptedCache, View,
                           NoPassword, modal, TRUE)

\* A drag that handleDragStart allowed, dropped on a folder or on "all".
handleDrop(p, folderId, modal) ==
    LET ps == [prompts EXCEPT ![p].folderId = folderId]
    IN
    /\ prompts[p].exists
    /\ ~prompts[p].isLocked /\ ~LockedByFolder(prompts[p], folders)
    /\ IsFolderOption(folderId)
    /\ prompts' = ps
    /\ dbPrompts' = [dbPrompts EXCEPT ![p] = ps[p]]
    /\ UNCHANGED <<folders, dbFolders, currentPromptId, isCreatingNew,
                   newPromptLockInfo, orig, lockPw, clipboard, lastId>>
    /\ updateUI(ps, folders, View, modal)

handleRenameFolder(f, modal) ==
    /\ folders[f].exists
    /\ dbFolders' = [dbFolders EXCEPT ![f] = folders[f]]
    /\ UNCHANGED <<prompts, folders, dbPrompts, currentPromptId, isCreatingNew,
                   newPromptLockInfo, orig, lockPw, clipboard, lastId>>
    /\ updateUI(prompts, folders, View, modal)

\* "Delete folder & move prompts", offered when the folder holds prompts.
handleDeleteFolderMove(f, password, modal) ==
    LET folder == folders[f]
        S == PromptsIn(f, prompts)
        r == IF folder.isLocked
             THEN DecryptEach(ArrayOrder(S), prompts, password)
             ELSE [ps |-> prompts, thrown |-> FALSE]
        ps == [p \in PromptIds |->
                 IF p \in S THEN [r.ps[p] EXCEPT !.folderId = NoFolder] ELSE r.ps[p]]
        fs == [folders EXCEPT ![f] = NoFolderRecord]
    IN
    /\ folder.exists
    /\ S # {}
    /\ folder.isLocked \/ password = NoPassword
    /\ IF folder.isLocked /\ (password = NoPassword
                              \/ PasswordRejected(folder.passwordCheck, f, password))
       THEN modal = NoModal /\ UNCHANGED state
       ELSE IF r.thrown
       THEN /\ modal = NoModal
            /\ prompts' = r.ps
            /\ displayedWith' = NoPassword
            /\ UNCHANGED <<folders, dbPrompts, dbFolders, sessionPasswords,
                           currentPromptId, isCreatingNew, newPromptLockInfo, ui,
                           closePending, decryptedCache, orig, lockPw, clipboard,
                           lastId>>
       ELSE /\ prompts' = ps
            /\ dbPrompts' = bulkPut(dbPrompts, S, ps)
            /\ folders' = fs
            /\ dbFolders' = [dbFolders EXCEPT ![f] = NoFolderRecord]
            /\ UNCHANGED <<currentPromptId, isCreatingNew, newPromptLockInfo,
                           orig, lockPw, clipboard, lastId>>
            /\ updateUI(ps, fs, View, modal)

\* The loop of handleConfirmMove over the selected prompts in array order:
\* oldPass[p] is what the user answers when asked for p's source password;
\* asked are the prompts ModalService.password was called for.
RECURSIVE MoveEach(_, _, _, _, _)
MoveEach(ids, ps, newFolderId, destPassword, oldPass) ==
    IF ids = <<>>
    THEN [ps |-> ps, thrown |-> FALSE, asked |-> {}]
    ELSE LET p == Head(ids)
             prompt == ps[p]
             locked == EffectivelyLocked(prompt, folders)
             check == decrypt(OwnerCheck(p, ps, folders), oldPass[p])
             skip == locked /\ (oldPass[p] = NoPassword
                                \/ PasswordRejected(OwnerCheck(p, ps, folders),
                                                    OwnerId(p, ps, folders), oldPass[p]))
             currentBody == IF locked THEN decrypt(prompt.body, oldPass[p])
                            ELSE prompt.body
             currentNotes == IF locked THEN decrypt(prompt.notes, oldPass[p])
                             ELSE prompt.notes
             moved == [prompt EXCEPT
                         !.isLocked = FALSE,
                         !.passwordCheck = Null,
                         !.body = IF destPassword # NoPassword
                                  THEN encrypt(currentBody, destPassword)
                                  ELSE currentBody,
                         !.notes = IF destPassword # NoPassword
                                   THEN encrypt(currentNotes, destPassword)
                                   ELSE currentNotes,
                         !.folderId = newFolderId]
             rest == IF skip
                     THEN MoveEach(Tail(ids), ps, newFolderId, destPassword,
                                   oldPass)
                     ELSE IF locked /\ (check = Throw \/ currentBody = Throw
                                        \/ currentNotes = Throw)
                     THEN [ps |-> ps, thrown |-> TRUE, asked |-> {}]
                     ELSE MoveEach(Tail(ids), [ps EXCEPT ![p] = moved],
                                   newFolderId, destPassword, oldPass)
         IN [rest EXCEPT !.asked = IF locked THEN rest.asked \cup {p}
                                   ELSE rest.asked]

\* Select mode, a selection, "move", a destination and its password field,
\* then "confirm": toggleSelectMode has closed the detail view of an
\* existing prompt (lines 1150-1159).
handleConfirmMove(selected, newFolderId, movePasswordInput, oldPass) ==
    LET destLocked == newFolderId # NoFolder /\ folders[newFolderId].isLocked
        destPassword == IF destLocked THEN movePasswordInput ELSE NoPassword
        view == [cur |-> 0, creating |-> isCreatingNew, lockInfo |-> newPromptLockInfo]
    IN
    /\ selected # {}
    /\ \A p \in selected : prompts[p].exists
    /\ IsFolderOption(newFolderId)
    /\ destLocked \/ movePasswordInput = NoPassword
    /\ \A p \in PromptIds :
          oldPass[p] # NoPassword =>
             p \in selected /\ EffectivelyLocked(prompts[p], folders)
    /\ currentPromptId' = 0
    /\ UNCHANGED <<folders, dbFolders, isCreatingNew, newPromptLockInfo, orig,
                   lockPw, clipboard, lastId>>
    /\ IF destLocked /\ PasswordRejected(folders[newFolderId].passwordCheck,
                                         newFolderId, destPassword)
       THEN /\ displayedWith' = NoPassword
            /\ UNCHANGED <<prompts, dbPrompts, sessionPasswords, ui, closePending,
                           decryptedCache>>
       ELSE \E r \in {MoveEach(ArrayOrder(selected), prompts, newFolderId,
                                destPassword, oldPass)} :
               /\ prompts' = r.ps
               /\ IF r.thrown
                  THEN /\ displayedWith' = NoPassword
                       /\ UNCHANGED <<dbPrompts, sessionPasswords, ui,
                                      closePending, decryptedCache>>
                  ELSE /\ dbPrompts' = bulkPut(dbPrompts, selected, prompts')
                       /\ updateUI(prompts', folders, view, NoModal)

\* A click on a folder or tag of the sidebar closes the detail view.
handleSidebarNavClick(modal) ==
    /\ UNCHANGED <<data, currentPromptId, isCreatingNew, newPromptLockInfo,
                   orig, lockPw, clipboard, lastId>>
    /\ Rendered(prompts, folders, sessionPasswords, decryptedCache, View,
                NoPassword, modal, TRUE)

\* The timer callback of _internalCloseDetailsView.
closeTimer ==
    /\ closePending
    /\ closePending' = FALSE
    /\ isCreatingNew' = FALSE
    /\ currentPromptId' = 0
    /\ newPromptLockInfo' = NoPassword
    /\ decryptedCache' = EmptyCache
    /\ displayedWith' = NoPassword
    /\ UNCHANGED <<data, sessionPasswords, ui, orig, lockPw, clipboard, lastId>>

\* The quick-copy button of a list item (lines 2020-2066): it writes
\* nothing but the clipboard.  An exception ends it before it writes.
handleQuickCopy(p, password) ==
    LET prompt == prompts[p]
        isLocked == EffectivelyLocked(prompt, folders)
        rejected == \/ password = NoPassword
                    \/ PasswordRejected(OwnerCheck(p, prompts, folders),
                                        OwnerId(p, prompts, folders), password)
        bodyToCopy == IF isLocked THEN decrypt(prompt.body, password)
                      ELSE prompt.body
    IN
    /\ prompt.exists
    /\ isLocked \/ password = NoPassword
    /\ clipboard' = IF (isLocked /\ rejected) \/ bodyToCopy = Throw
                    THEN clipboard ELSE bodyToCopy
    /\ UNCHANGED <<data, sessionPasswords, currentPromptId, isCreatingNew,
                   newPromptLockInfo, ui, closePending, decryptedCache, lastId,
                   displayedWith, orig, lockPw>>

\* The select-mode button while the detail view of a prompt is open: it
\* enters select mode and hides the view.  state.isSelectMode is not kept
\* here: leaving select mode changes none of the variables above, and
\* entering it with no prompt open changes none either.
toggleSelectMode ==
    /\ currentPromptId # 0
    /\ currentPromptId' = 0
    /\ displayedWith' = NoPassword
    /\ UNCHANGED <<data, sessionPasswords, isCreatingNew, newPromptLockInfo, ui,
                   closePending, decryptedCache, clipboard, lastId, orig, lockPw>>

\* A store that removes nothing.
bulkRemoveNothing(store, S) == store

\* DB.bulkRemove(DB.STORES.PROMPTS, promptIdsToDelete)
bulkRemove(store, S) == [p \in PromptIds |-> IF p \in S THEN NoPrompt ELSE store[p]]

\* "Delete folder & prompts" (or "Delete empty folder") of the delete
\* confirmation of folder f.
handleDeleteFolderAndPrompts(f, modal) ==
    LET S == PromptsIn(f, prompts)
        ps == [p \in PromptIds |-> IF p \in S THEN NoPrompt ELSE prompts[p]]
        fs == [folders EXCEPT ![f] = NoFolderRecord]
        closes == currentPromptId # 0 /\ ~ps[currentPromptId].exists
        cur == IF closes THEN 0 ELSE currentPromptId
    IN
    /\ folders[f].exists
    /\ dbPrompts' = bulkRemove(dbPrompts, S)
    /\ dbFolders' = [dbFolders EXCEPT ![f] = NoFolderRecord]
    /\ prompts' = ps
    /\ folders' = fs
    /\ currentPromptId' = cur
    /\ UNCHANGED <<isCreatingNew, newPromptLockInfo, orig, lockPw, clipboard,
                   lastId>>
    /\ Rendered(ps, fs, sessionPasswords, decryptedCache,
                [View EXCEPT !.cur = cur], NoPassword, modal, closes)

\* ----------------------------------------------------- backup, restart
\* The number of user actions in a behaviour that starts from InitBackup.
MaxBackupOps == 3

\* The names a user gives a tag.
TagNames == {"t", "u"}

\* JSON.stringify leaves out a property whose value is undefined; a string,
\* null and a {ct, iv, salt} object are written as they are.
JsonAbsent == [k |-> "absent", s |-> <<>>, pw |-> ""]
stringify(v) == IF v = Undefined THEN JsonAbsent ELSE v

\* JSON.parse and the read of a property: one that is missing reads
\* undefined.
parse(j) == IF j = JsonAbsent THEN Undefined ELSE j

stringifyPrompt(pr) ==
    [pr EXCEPT !.body = stringify(pr.body), !.notes = stringify(pr.notes),
               !.passwordCheck = stringify(pr.passwordCheck)]

parsePrompt(j) ==
    [j EXCEPT !.body = parse(j.body), !.notes = parse(j.notes),
              !.passwordCheck = parse(j.passwordCheck)]

stringifyFolder(fo) == [fo EXCEPT !.passwordCheck = stringify(fo.passwordCheck)]

parseFolder(j) == [j EXCEPT !.passwordCheck = parse(j.passwordCheck)]

\* The "add tag" button of the sidebar, with a name no tag has.
handleAddGlobalTag(tagName) ==
    /\ tagName \notin globalTags
    /\ dbTags' = dbTags \cup {tagName}
    /\ globalTags' = globalTags \cup {tagName}
    /\ UNCHANGED <<state, exportFile>>

\* "Export" of the settings: the three stores, as JSON, in a file.  The
\* stores as they are read and the two histories go with it.
handleExport ==
    /\ \/ \E p \in PromptIds : prompts[p].exists
       \/ \E f \in FolderIds : folders[f].exists
    /\ exportFile' = [exists |-> TRUE,
                      prompts |-> [p \in PromptIds |-> stringifyPrompt(dbPrompts[p])],
                      folders |-> [f \in FolderIds |-> stringifyFolder(dbFolders[f])],
                      globalTags |-> dbTags,
                      stores |-> [prompts |-> dbPrompts, folders |-> dbFolders,
                                  tags |-> dbTags],
                      orig |-> orig, lockPw |-> lockPw]
    /\ UNCHANGED <<state, globalTags, dbTags>>

\* An import that leaves the stores as they are before it adds.
notCleared(store, none) == store

\* await DB.clear(store)
clear(store, none) == [id \in DOMAIN store |-> none]

\* An import that puts every item of the file.
putAll(store, items) ==
    [id \in DOMAIN store |-> IF items[id].exists THEN items[id] ELSE store[id]]

\* const newItems = data.items.filter((i) => !existingIds.has(i.id));
\* await DB.bulkPut(store, newItems)
putNew(store, items) ==
    [id \in DOMAIN store |-> IF store[id].exists THEN store[id] ELSE items[id]]

\* The properties a backup file can have, and the sets of them a chosen
\* file has: handleExport writes all three, handleExportSingleFolder
\* (2373-2400) folders and prompts, handleBulkExport (2403-2426) prompts, and
\* a file can be edited.
FileProperties == {"prompts", "folders", "globalTags"}
FileShapes == SUBSET FileProperties

\* data && (data.prompts || data.folders)
validFormat(has) == "prompts" \in has \/ "folders" \in has

\* isPartial of a file of a valid format
isPartial(has) == has # FileProperties

\* The store an import adds to: if (!isPartial) await DB.clear(store)
cleared(store, none, has) ==
    IF isPartial(has) THEN store ELSE clear(store, none)

\* "Import" of a file that has the properties `has` of the file handleExport
\* wrote; confirmed is the answer to "This will overwrite all current data"
\* or to "This will add data from the selected file".
handleImport(has, confirmed) ==
    LET imported == [prompts |-> [p \in PromptIds |-> parsePrompt(exportFile.prompts[p])],
                 folders |-> [f \in FolderIds |-> parseFolder(exportFile.folders[f])],
                 globalTags |-> exportFile.globalTags]
        ps == IF "prompts" \in has
              THEN putNew(cleared(dbPrompts, NoPrompt, has), imported.prompts)
              ELSE dbPrompts
        fs == IF "folders" \in has
              THEN putNew(cleared(dbFolders, NoFolderRecord, has), imported.folders)
              ELSE dbFolders
        tags == IF "globalTags" \in has
                THEN (IF isPartial(has) THEN dbTags ELSE {}) \cup imported.globalTags
                ELSE dbTags
        added == {p \in PromptIds : ps[p] # dbPrompts[p]}
                 \cup {f \in FolderIds : fs[f] # dbFolders[f]}
    IN
    /\ exportFile.exists
    /\ IF ~validFormat(has) \/ ~confirmed
       THEN UNCHANGED <<state, backup>>
       ELSE /\ dbPrompts' = ps
            /\ dbFolders' = fs
            /\ dbTags' = tags
            /\ currentPromptId' = 0
            /\ isCreatingNew' = FALSE
            /\ prompts' = ps
            /\ folders' = fs
            /\ globalTags' = tags
            /\ orig' = [p \in DOMAIN orig |->
                          IF isPartial(has) /\ p \notin added
                          THEN orig[p] ELSE exportFile.orig[p]]
            /\ lockPw' = [e \in DOMAIN lockPw |->
                            IF isPartial(has) /\ e \notin added
                            THEN lockPw[e] ELSE exportFile.lockPw[e]]
            /\ UNCHANGED <<newPromptLockInfo, clipboard, lastId, exportFile>>
            /\ Rendered(ps, fs, sessionPasswords, decryptedCache,
                        [cur |-> 0, creating |-> FALSE,
                         lockInfo |-> newPromptLockInfo],
                        NoPassword, NoModal, FALSE)

\* The page is closed and loaded again: a new state object, loadData() and
\* updateUI().  The store, the clipboard and the file outlive it.
restart ==
    /\ prompts' = dbPrompts
    /\ folders' = dbFolders
    /\ globalTags' = dbTags
    /\ sessionPasswords' = [e \in FolderIds \cup PromptIds |-> NoPassword]
    /\ currentPromptId' = 0
    /\ isCreatingNew' = FALSE
    /\ newPromptLockInfo' = NoPassword
    /\ uiBody' = ""
    /\ uiNotes' = ""
    /\ uiLockChecked' = FALSE
    /\ uiLockDisabled' = FALSE
    /\ closePending' = FALSE
    /\ decryptedCache' = EmptyCache
    /\ displayedWith' = NoPassword
    /\ UNCHANGED <<dbPrompts, dbFolders, dbTags, clipboard, lastId, orig, lockPw,
                   exportFile>>

\* What a user can have in the text areas at a save: of a new prompt, what
\* was typed; of an existing one, what the view shows.
Typed(S, shown) == IF isCreatingNew THEN S ELSE {shown}

\* ------------------------------------------------------- user actions
\* Whether the oracle of the governing entity refuses the password given.
OracleRefuses(passwordCheck, id, password) ==
    decrypt(passwordCheck, password) # IdString(id)

Did(op, id, pw, wrong) ==
    [NoOp EXCEPT !.op = op, !.id = id, !.pw = pw, !.wrong = wrong]

\* The selected prompts whose source password is withheld or refused.
Refused(selected, oldPass) ==
    {p \in selected :
        /\ EffectivelyLocked(prompts[p], folders)
        /\ \/ oldPass[p] = NoPassword
           \/ OracleRefuses(OwnerCheck(p, prompts, folders),
                            OwnerId(p, prompts, folders), oldPass[p])}

\* The prompts whose password the loop of handleConfirmMove asks for: no
\* dialog is shown for a prompt that is not selected or not locked.
Asked(selected) ==
    {p \in selected : prompts[p].exists /\ EffectivelyLocked(prompts[p], folders)}

\* What the user gives to handleConfirmMove: the selection, and an answer to
\* each password dialog the loop shows.
MoveInputs ==
    UNION {{<<selected, [p \in PromptIds |->
                            IF p \in Asked(selected) THEN answers[p] ELSE NoPassword]>> :
                answers \in [Asked(selected) -> PasswordInputs]} :
           selected \in SUBSET PromptIds}

\* A user action spends one of the actions left and is recorded; one that
\* the user cancels before it does anything is no step at all.
Budget(label) ==
    IF label.op = "cancel"
    THEN UNCHANGED <<lastOp, opsLeft>>
    ELSE /\ opsLeft > 0
         /\ opsLeft' = opsLeft - 1
         /\ lastOp' = label

\* A user action on the vault.
Act(label) == Budget(label) /\ UNCHANGED aux

CurrentCheck ==
    IF currentPromptId = 0 THEN Null ELSE prompts[currentPromptId].passwordCheck

Cancel == Did("cancel", 0, NoPassword, FALSE)
Other == Did("other", 0, NoPassword, FALSE)

Next ==
    \/ \E f \in FolderIds, password \in PasswordInputs, modal \in ModalResults :
          /\ Act(IF password = NoPassword THEN Cancel
                 ELSE IF folders[f].isLocked
                 THEN Did("folderUnlock", f, NoPassword,
                          OracleRefuses(folders[f].passwordCheck, f, password))
                 ELSE [Did("folderLock", f, password, FALSE)
                          EXCEPT !.before = prompts])
          /\ handleToggleFolderLock(f, password, modal)
    \/ \E p \in PromptIds, modal \in ModalResults :
          /\ Act(IF /\ EffectivelyLocked(prompts[p], folders)
                    /\ sessionPasswords[OwnerId(p, prompts, folders)] = NoPassword
                    /\ modal.password = NoPassword
                 THEN Did("openCancel", p, NoPassword, FALSE)
                 ELSE Did("open", p, modal.password, FALSE))
          /\ handlePromptListClick(p, modal)
    \/ /\ Act(Other)
       /\ handleNewPromptClick
    \/ \E password \in PasswordInputs :
          /\ Act(IF password = NoPassword /\ (~uiLockChecked \/ ~isCreatingNew)
                 THEN Cancel
                 ELSE IF isCreatingNew THEN Other
                 ELSE IF uiLockChecked
                 THEN Did("promptUnlock", 0, NoPassword,
                          OracleRefuses(CurrentCheck, currentPromptId, password))
                 ELSE Did("promptLock", currentPromptId, password, FALSE))
          /\ handlePromptLockToggle(password)
    \/ \E folderId \in FolderIds \cup {NoFolder}, title \in {"", "t"},
          body \in Typed(BodyTexts \cup {""}, uiBody),
          notes \in Typed(NotesTexts, uiNotes), modal \in ModalResults :
          /\ Act(IF title = "" /\ body = "" /\ notes = "" THEN Cancel
                 ELSE Did("save", 0, NoPassword, FALSE))
          /\ handleSavePrompt(folderId, title, body, notes, modal)
    \/ \E p \in PromptIds, folderId \in FolderIds \cup {NoFolder},
          modal \in ModalResults :
          /\ Act(Did("drop", 0, NoPassword, FALSE))
          /\ handleDrop(p, folderId, modal)
    \/ \E f \in FolderIds, modal \in ModalResults :
          /\ Act(Other)
          /\ handleRenameFolder(f, modal)
    \/ \E f \in FolderIds, password \in PasswordInputs, modal \in ModalResults :
          /\ Act(IF folders[f].isLocked /\ password = NoPassword THEN Cancel
                 ELSE Did("deleteFolderMove", f, NoPassword,
                          /\ folders[f].isLocked
                          /\ OracleRefuses(folders[f].passwordCheck, f, password)))
          /\ handleDeleteFolderMove(f, password, modal)
    \/ \E move \in MoveInputs,
          newFolderId \in FolderIds \cup {NoFolder},
          movePasswordInput \in PasswordInputs :
          /\ Act([Did("move", 0, NoPassword,
                      /\ newFolderId # NoFolder
                      /\ folders[newFolderId].isLocked
                      /\ OracleRefuses(folders[newFolderId].passwordCheck,
                                       newFolderId, movePasswordInput))
                    EXCEPT !.selected = move[1],
                           !.skipped = Refused(move[1], move[2]),
                           !.dest = newFolderId])
          /\ handleConfirmMove(move[1], newFolderId, movePasswordInput, move[2])
    \/ \E p \in PromptIds, password \in PasswordInputs :
          /\ Act(IF ~EffectivelyLocked(prompts[p], folders)
                 THEN Did("quickCopy", p, NoPassword, FALSE)
                 ELSE IF password = NoPassword THEN Cancel
                 ELSE Did("quickCopy", p, password,
                          OracleRefuses(OwnerCheck(p, prompts, folders),
                                        OwnerId(p, prompts, folders), password)))
          /\ handleQuickCopy(p, password)
    \/ \E modal \in ModalResults :
          /\ Act(Other)
          /\ handleSidebarNavClick(modal)
    \/ /\ Act(Other)
       /\ toggleSelectMode
    \/ \E f \in FolderIds, modal \in ModalResults :
          /\ Act(Did("deleteFolderAndPrompts", f, NoPassword, FALSE))
          /\ handleDeleteFolderAndPrompts(f, modal)
    \/ closeTimer /\ UNCHANGED <<lastOp, opsLeft, aux>>

Spec == Init /\ [][Next]_vars

SpecDeep == InitDeep /\ [][Next]_vars

SpecNew == InitNew /\ [][Next]_vars

\* The vault of InitDeep, with tags, backups and restarts.
InitBackup ==
    /\ Idle
    /\ Loaded({1}, MaxPrompts,
              [p \in PromptIds |->
                 IF p = NumFolders + MaxPrompts THEN NoFolder ELSE 1],
              {NumFolders + MaxPrompts})
    /\ opsLeft = MaxBackupOps

\* The ids of the records the stores hold.
StoredIds ==
    {p \in PromptIds : dbPrompts[p].exists}
    \cup {f \in FolderIds : dbFolders[f].exists}

\* A user action on the tags, the backup file or the page.
BackupAct(label) ==
    Budget(label) /\ UNCHANGED <<cipher, modalService, suspended, random, search>>

NextBackup ==
    \/ Next
    \/ \E tagName \in TagNames :
          /\ BackupAct(Did("addTag", 0, NoPassword, FALSE))
          /\ handleAddGlobalTag(tagName)
    \/ /\ BackupAct(Did("export", 0, NoPassword, FALSE))
       /\ handleExport
    \/ \E has \in FileShapes, confirmed \in BOOLEAN :
          /\ BackupAct(IF ~validFormat(has) \/ ~confirmed THEN Cancel
                       ELSE [Did(IF isPartial(has) THEN "importPartial"
                                 ELSE "import", 0, NoPassword, FALSE)
                               EXCEPT !.before = dbPrompts,
                                      !.had = StoredIds])
          /\ handleImport(has, confirmed)
    \/ /\ BackupAct(Did("restart", 0, NoPassword, FALSE))
       /\ restart

SpecBackup == InitBackup /\ [][NextBackup]_vars

\* ------------------------------------------------ CryptoService alone
\* The longest string given to CryptoService, in code units.
MaxLen == 2

Units == {"a", HighSurrogate, LowSurrogate, ByteOrderMark, Replacement}
Strings == UNION {[1..n -> Units] : n \in 0..MaxLen}

\* What a caller can give: a string, null, undefined, or the ciphertext of
\* a string.
CipherInputs ==
    {Text(s) : s \in Strings} \cup {Null, Undefined}
    \cup {Ciphertext(encode(s), pw) : s \in Strings, pw \in Passwords}

\* A caller with a value and a password in hand; the vault is at rest.
InitCipher ==
    /\ Loaded({1}, MaxPrompts,
              [p \in PromptIds |->
                 IF p = NumFolders + MaxPrompts THEN NoFolder ELSE 1],
              {NumFolders + MaxPrompts})
    /\ opsLeft = 0
    /\ cipherIn \in CipherInputs
    /\ cipherPw \in PasswordInputs
    /\ cipherOut = NotCalled
    /\ ModalIdle
    /\ NoneSuspended
    /\ RandomAtLoad
    /\ NoSearch

\* await CryptoService.encrypt(cipherIn, cipherPw)
callEncrypt ==
    /\ cipherOut.op = "none"
    /\ cipherOut' = [op |-> "encrypt", value |-> encrypt(cipherIn, cipherPw)]
    /\ UNCHANGED <<cipherIn, cipherPw>>

\* await CryptoService.decrypt(cipherIn, cipherPw)
callDecrypt ==
    /\ cipherOut.op = "none"
    /\ cipherOut' = [op |-> "decrypt", value |-> decrypt(cipherIn, cipherPw)]
    /\ UNCHANGED <<cipherIn, cipherPw>>

\* await CryptoService.decrypt(encrypted, cipherPw), of what encrypt has
\* returned for cipherIn and cipherPw.
callDecryptEncrypted ==
    /\ cipherOut.op = "encrypt"
    /\ cipherOut' = [op |-> "decryptEncrypted",
                     value |-> decrypt(cipherOut.value, cipherPw)]
    /\ UNCHANGED <<cipherIn, cipherPw>>

\* await CryptoService.decrypt(encrypted, other), of what encrypt has
\* returned for cipherIn and cipherPw, under another password.
callDecryptOther(other) ==
    /\ cipherOut.op = "encrypt"
    /\ other # cipherPw
    /\ cipherOut' = [op |-> "decryptOther",
                     value |-> decrypt(cipherOut.value, other)]
    /\ UNCHANGED <<cipherIn, cipherPw>>

\* What a call of CryptoService leaves alone.
CipherStep ==
    UNCHANGED <<state, lastOp, opsLeft, backup, modalService, suspended, random,
                search>>

NextCipher ==
    \/ callEncrypt /\ CipherStep
    \/ callDecrypt /\ CipherStep
    \/ callDecryptEncrypted /\ CipherStep
    \/ \E other \in Passwords : callDecryptOther(other) /\ CipherStep

SpecCipher == InitCipher /\ [][NextCipher]_vars

\* ------------------------------------------------- ModalService alone
\* The handlers that ask for a password, check it and alert if it is wrong,
\* and what each checks it against: the locked folder 1, or the prompt that
\* has its own lock.
PasswordHandlers == {"folderUnlock", "promptUnlock", "deleteFolderMove", "move"}
CheckedId(handler) ==
    IF handler \in {"promptUnlock", "open"} THEN NumFolders + MaxPrompts ELSE 1
CheckOf(handler) ==
    IF handler \in {"promptUnlock", "open"}
    THEN prompts[CheckedId(handler)].passwordCheck
    ELSE folders[CheckedId(handler)].passwordCheck

\* modal.classList.contains("show")
containsShow == modalClass \in {"show", "closing"}

\* showModal(modal), and the listeners of the dialog put on its buttons.
showModal(type) ==
    /\ modalClass' = "show"
    /\ dialog' = [type |-> type, error |-> FALSE, remember |-> FALSE]

\* cleanup(): hideModal(modal) adds "closing" and starts the timer that
\* removes "show"; the listeners are taken off, and the calls of validate
\* still out hold a cleanup and a resolve that do nothing any more.
cleanup ==
    /\ modalClass' = "closing"
    /\ dialog' = NoDialog
    /\ inFlight' = {[v EXCEPT !.live = FALSE] : v \in inFlight}

\* await ModalService.alert("Incorrect password.") and the return of the
\* handler, or its next turn of the loop, that follows: show() resolves
\* false at once if the modal has "show".
alert ==
    IF containsShow
    THEN /\ outcome' = [outcome EXCEPT !.wrong = TRUE, !.alert = "dropped"]
         /\ caller' = NoCaller
         /\ UNCHANGED <<modalClass, dialog, inFlight>>
    ELSE /\ showModal("alert")
         /\ outcome' = [outcome EXCEPT !.wrong = TRUE, !.alert = "shown"]
         /\ caller' = [caller EXCEPT !.at = "alert"]
         /\ UNCHANGED inFlight

\* if (!password) return; and in the loop of handleConfirmMove
\* if (!oldPass) { await ModalService.alert(`Skipping prompt.`); continue; }
\* where the modal still has "show", of this dialog or of the one before.
nothingGiven(handler) ==
    IF handler = "move"
    THEN /\ outcome' = [outcome EXCEPT !.alert = "dropped"]
         /\ caller' = NoCaller
    ELSE /\ caller' = NoCaller
         /\ UNCHANGED outcome

\* A handler runs up to its await ModalService.password(...).
askPassword(handler) ==
    /\ caller = NoCaller
    /\ IF containsShow
       THEN /\ caller' = NoCaller
            /\ outcome' = [NoOutcome EXCEPT
                             !.alert = IF handler = "move" THEN "dropped"
                                       ELSE "none"]
            /\ UNCHANGED <<modalClass, dialog, inFlight>>
       ELSE /\ showModal("password")
            /\ caller' = [handler |-> handler, at |-> "password",
                          pw |-> NoPassword]
            /\ outcome' = NoOutcome
            /\ UNCHANGED inFlight

\* onConfirm of a dialog with an input and no validate: it resolves with
\* the value of the input, and the handler goes on to
\* check = await CryptoService.decrypt(item.passwordCheck, password).
confirmPassword(password) ==
    /\ dialog.type = "password"
    /\ cleanup
    /\ IF password = NoPassword
       THEN nothingGiven(caller.handler)
       ELSE /\ caller' = [caller EXCEPT !.at = "decrypt", !.pw = password]
            /\ UNCHANGED outcome

\* onCancel and onOverlayClick of the password dialog: it resolves null.
cancelPassword ==
    /\ dialog.type = "password"
    /\ cleanup
    /\ nothingGiven(caller.handler)

\* decrypt returns: if (check !== String(item.id)) the handler alerts and
\* returns, else it goes on to its work on the vault.
decryptReturns ==
    /\ caller.at = "decrypt"
    /\ IF OracleRefuses(CheckOf(caller.handler), CheckedId(caller.handler),
                        caller.pw)
       THEN alert
       ELSE /\ caller' = NoCaller
            /\ UNCHANGED <<modalClass, dialog, inFlight, outcome>>

\* onConfirm, onCancel or onOverlayClick of the alert.
acknowledgeAlert ==
    /\ dialog.type = "alert"
    /\ cleanup
    /\ caller' = NoCaller
    /\ outcome' = [outcome EXCEPT !.alert = "acknowledged"]

\* The timer of hideModal: classList.remove("show", "closing").
hideTimer ==
    /\ modalClass = "closing"
    /\ modalClass' = "hidden"
    /\ UNCHANGED <<dialog, caller, inFlight, outcome>>

\* renderPromptDetails of a locked prompt with no password at hand runs up
\* to its await ModalService.password(..., {validate}).
askValidated ==
    /\ caller = NoCaller
    /\ IF containsShow
       THEN /\ caller' = NoCaller
            /\ outcome' = [NoOutcome EXCEPT !.result = ResolvedFalse]
            /\ UNCHANGED <<modalClass, dialog, inFlight>>
       ELSE /\ showModal("validated")
            /\ caller' = [handler |-> "open", at |-> "validated",
                          pw |-> NoPassword]
            /\ outcome' = NoOutcome
            /\ UNCHANGED inFlight

\* The "remember" checkbox of the validated prompt.
toggleRemember ==
    /\ dialog.type = "validated"
    /\ dialog' = [dialog EXCEPT !.remember = ~dialog.remember]
    /\ UNCHANGED <<modalClass, caller, inFlight, outcome>>

\* onConfirm of the validated prompt up to its await:
\* if (!password) return; const isValid = await config.validate(password)
confirmValidated(password) ==
    /\ dialog.type = "validated"
    /\ inFlight' = IF password = NoPassword THEN inFlight
                   ELSE inFlight \cup {[password |-> password, live |-> TRUE]}
    /\ UNCHANGED <<modalClass, dialog, caller, outcome>>

\* validate returns to onConfirm: a password it accepts resolves the
\* prompt, one it refuses shows the error and leaves the prompt open.
validateReturns(v) ==
    /\ v \in inFlight
    /\ IF Validates(CheckOf("open"), CheckedId("open"), v.password)
       THEN IF v.live
            THEN /\ modalClass' = "closing"
                 /\ dialog' = NoDialog
                 /\ inFlight' = {[w EXCEPT !.live = FALSE] : w \in inFlight \ {v}}
                 /\ caller' = NoCaller
                 /\ outcome' = [outcome EXCEPT
                                  !.result = Resolved(v.password, dialog.remember)]
            ELSE /\ inFlight' = inFlight \ {v}
                 /\ UNCHANGED <<modalClass, dialog, caller, outcome>>
       ELSE /\ inFlight' = inFlight \ {v}
            /\ dialog' = IF dialog.type = "none" THEN dialog
                         ELSE [dialog EXCEPT !.error = TRUE]
            /\ UNCHANGED <<modalClass, caller, outcome>>

\* onCancel and onOverlayClick of the validated prompt: it resolves null.
cancelValidated ==
    /\ dialog.type = "validated"
    /\ cleanup
    /\ caller' = NoCaller
    /\ outcome' = [outcome EXCEPT !.result = ResolvedNull, !.cancelled = TRUE]

\* The vault of InitDeep at rest, and no dialog.
InitModal ==
    /\ Loaded({1}, MaxPrompts,
              [p \in PromptIds |->
                 IF p = NumFolders + MaxPrompts THEN NoFolder ELSE 1],
              {NumFolders + MaxPrompts})
    /\ opsLeft = 0
    /\ CipherIdle
    /\ ModalIdle
    /\ NoneSuspended
    /\ RandomAtLoad
    /\ NoSearch

\* What a step of ModalService and its caller leaves alone.
ModalStep ==
    UNCHANGED <<state, lastOp, opsLeft, backup, cipher, suspended, random, search>>

NextModal ==
    \/ \E handler \in PasswordHandlers : askPassword(handler) /\ ModalStep
    \/ \E password \in PasswordInputs : confirmPassword(password) /\ ModalStep
    \/ cancelPassword /\ ModalStep
    \/ decryptReturns /\ ModalStep
    \/ acknowledgeAlert /\ ModalStep
    \/ hideTimer /\ ModalStep
    \/ askValidated /\ ModalStep
    \/ toggleRemember /\ ModalStep
    \/ \E password \in PasswordInputs : confirmValidated(password) /\ ModalStep
    \/ \E v \in inFlight : validateReturns(v) /\ ModalStep
    \/ cancelValidated /\ ModalStep

SpecModal == InitModal /\ [][NextModal]_vars

\* ------------------------------------------- handlers, await by await
\* The lock branch of handleToggleFolderLock from the password the dialog
\* resolved with to its first await:
\*   folder.isLocked = true;
\*   folder.passwordCheck = await CryptoService.encrypt(String(folder.id), ...
lockStart(f, password) ==
    /\ lockRun.at = "idle"
    /\ folders[f].exists /\ ~folders[f].isLocked
    /\ password # NoPassword
    /\ folders' = [folders EXCEPT ![f].isLocked = TRUE]
    /\ lockPw' = [lockPw EXCEPT ![f] = password]
    /\ lockRun' = [NoLockRun EXCEPT !.at = "check", !.f = f,
                                    !.password = password,
                                    !.overlapped = dropRun.at # "idle"]
    /\ UNCHANGED <<prompts, dbPrompts, dbFolders, sessionPasswords,
                   currentPromptId, isCreatingNew, newPromptLockInfo, ui,
                   closePending, decryptedCache, clipboard, lastId,
                   displayedWith, orig, dropRun>>

\* What a step between two awaits that writes memory only leaves alone.
MemoryStep ==
    UNCHANGED <<dbFolders, sessionPasswords, currentPromptId, isCreatingNew,
                newPromptLockInfo, ui, closePending, decryptedCache, clipboard,
                lastId, displayedWith, orig, lockPw, dropRun>>

\* encrypt returns the passwordCheck; promptsToUpdate is filtered from
\* state.prompts as it is now, and the loop reaches its first await, or
\* there is nothing to do and DB.bulkPut resolves at once.
lockCheckReturns ==
    LET f == lockRun.f
        all == PromptsIn(f, prompts)
        todo == ArrayOrder(all)
    IN
    /\ lockRun.at = "check"
    /\ folders' = [folders EXCEPT
                     ![f].passwordCheck = NewPasswordCheck(f, lockRun.password)]
    /\ lockRun' = [lockRun EXCEPT
                     !.all = all, !.todo = todo,
                     !.at = IF todo = <<>> THEN "bulkPut" ELSE "body",
                     !.arg = IF todo = <<>> THEN Undefined
                             ELSE prompts[Head(todo)].body]
    /\ UNCHANGED <<prompts, dbPrompts>>
    /\ MemoryStep

\* p.body = await CryptoService.encrypt(p.body, password), and the call
\* of encrypt for p.notes.
lockBodyReturns ==
    LET p == Head(lockRun.todo)
    IN
    /\ lockRun.at = "body"
    /\ prompts' = [prompts EXCEPT ![p].body = encrypt(lockRun.arg, lockRun.password)]
    /\ lockRun' = [lockRun EXCEPT !.at = "notes", !.arg = prompts[p].notes]
    /\ UNCHANGED <<folders, dbPrompts>>
    /\ MemoryStep

\* p.notes = await CryptoService.encrypt(p.notes, password), and the next
\* turn of the loop or, after the last, the call of DB.bulkPut, which puts
\* the objects of promptsToUpdate as they are now.
lockNotesReturns ==
    LET p == Head(lockRun.todo)
        rest == Tail(lockRun.todo)
        ps == [prompts EXCEPT ![p].notes = encrypt(lockRun.arg, lockRun.password)]
    IN
    /\ lockRun.at = "notes"
    /\ prompts' = ps
    /\ IF rest = <<>>
       THEN /\ dbPrompts' = bulkPut(dbPrompts, lockRun.all, ps)
            /\ lockRun' = [lockRun EXCEPT !.at = "bulkPut", !.todo = rest,
                                          !.arg = Undefined]
       ELSE /\ dbPrompts' = dbPrompts
            /\ lockRun' = [lockRun EXCEPT !.at = "body", !.todo = rest,
                                          !.arg = ps[Head(rest)].body]
    /\ UNCHANGED folders
    /\ MemoryStep

\* DB.bulkPut resolves: await DB.put(DB.STORES.FOLDERS, folder)
lockBulkPutResolves ==
    /\ lockRun.at = "bulkPut"
    /\ dbFolders' = [dbFolders EXCEPT ![lockRun.f] = folders[lockRun.f]]
    /\ lockRun' = [lockRun EXCEPT !.at = "put"]
    /\ UNCHANGED <<prompts, folders, dbPrompts, sessionPasswords,
                   currentPromptId, isCreatingNew, newPromptLockInfo, ui,
                   closePending, decryptedCache, clipboard, lastId,
                   displayedWith, orig, lockPw, dropRun>>

\* DB.put resolves: updateUI(), and the handler returns.
lockPutResolves ==
    /\ lockRun.at = "put"
    /\ lockRun' = [NoLockRun EXCEPT !.at = "idle", !.f = lockRun.f,
                                    !.overlapped = lockRun.overlapped]
    /\ updateUI(prompts, folders, View, NoModal)
    /\ UNCHANGED <<data, currentPromptId, isCreatingNew, newPromptLockInfo,
                   clipboard, lastId, orig, lockPw, dropRun>>

\* handleDrop up to its await:
\*   prompt.folderId = folderId; await DB.put(DB.STORES.PROMPTS, prompt)
dropStart(p, folderId) ==
    LET ps == [prompts EXCEPT ![p].folderId = folderId]
    IN
    /\ dropRun.at = "idle"
    /\ prompts[p].exists
    /\ ~prompts[p].isLocked /\ ~LockedByFolder(prompts[p], folders)
    /\ IsFolderOption(folderId)
    /\ prompts' = ps
    /\ dbPrompts' = [dbPrompts EXCEPT ![p] = ps[p]]
    /\ dropRun' = [at |-> "put", p |-> p]
    /\ lockRun' = [lockRun EXCEPT
                     !.overlapped = lockRun.overlapped \/ lockRun.at # "idle"]
    /\ UNCHANGED <<folders, dbFolders, sessionPasswords, currentPromptId,
                   isCreatingNew, newPromptLockInfo, ui, closePending,
                   decryptedCache, clipboard, lastId, displayedWith, orig,
                   lockPw>>

\* DB.put resolves: updateUI(), and handleDrop returns.
dropPutResolves ==
    /\ dropRun.at = "put"
    /\ dropRun' = NoDropRun
    /\ updateUI(prompts, folders, View, NoModal)
    /\ UNCHANGED <<data, currentPromptId, isCreatingNew, newPromptLockInfo,
                   clipboard, lastId, orig, lockPw, lockRun>>

\* A vault with nothing locked: prompt NumFolders + 1 in folder 1, the
\* others in no folder; no handler has started.
InitAsync ==
    /\ Loaded({}, MaxPrompts,
              [p \in PromptIds |-> IF p = NumFolders + 1 THEN 1 ELSE NoFolder],
              {})
    /\ opsLeft = 0
    /\ Idle

\* What a step of a handler followed await by await leaves alone.
AsyncStep ==
    UNCHANGED <<lastOp, opsLeft, backup, cipher, modalService, random, search>>

NextAsync ==
    \/ \E f \in FolderIds, password \in Passwords :
          lockStart(f, password) /\ AsyncStep
    \/ lockCheckReturns /\ AsyncStep
    \/ lockBodyReturns /\ AsyncStep
    \/ lockNotesReturns /\ AsyncStep
    \/ lockBulkPutResolves /\ AsyncStep
    \/ lockPutResolves /\ AsyncStep
    \/ \E p \in PromptIds, folderId \in FolderIds \cup {NoFolder} :
          dropStart(p, folderId) /\ AsyncStep
    \/ dropPutResolves /\ AsyncStep

SpecAsync == InitAsync /\ [][NextAsync]_vars

\* ------------------------------------------- the salt and iv of a call
\* The handlers a behaviour that follows the random values may start.
MaxRandomOps == 4

\* A generator that gives the same salt and iv at every call.
sameValues(n) == 1

\* window.crypto.getRandomValues, called for a salt and for an iv after n
\* pairs have been drawn: the values drawn are taken never to come twice.
getRandomValues(n) == n + 1

\* What a place holds once the step is done.
ValueAfter(pl) ==
    IF pl[2] \in FolderIds
    THEN (IF pl[1] = "mem" THEN folders' ELSE dbFolders')[pl[2]].passwordCheck
    ELSE LET pr == (IF pl[1] = "mem" THEN prompts' ELSE dbPrompts')[pl[2]]
         IN CASE pl[3] = "body" -> pr.body
              [] pl[3] = "notes" -> pr.notes
              [] OTHER -> pr.passwordCheck

\* The pairs after a step in which encrypt has returned into the memory
\* places `encrypted` (one call at most) and DB.put or DB.bulkPut has been
\* given the objects putIds: encrypt draws a salt and an iv when it returns
\* a {ct, iv, salt} object (lines 46-47, 58-62), and a put stores the object
\* memory holds.
Tracked(encrypted, putIds) ==
    LET drew == \E pl \in encrypted : IsCiphertext(ValueAfter(pl))
        mem == [pl \in Places |->
                  IF pl \in encrypted /\ IsCiphertext(ValueAfter(pl))
                  THEN getRandomValues(drawn)
                  ELSE pairOf[pl]]
    IN /\ drawn' = IF drew THEN drawn + 1 ELSE drawn
       /\ pairOf' = [pl \in Places |->
                       IF pl[1] = "db" /\ pl[2] \in putIds
                       THEN mem[<<"mem", pl[2], pl[3]>>]
                       ELSE mem[pl]]

\* The unlock branch of handleToggleFolderLock, which calls decrypt only.
unlockFolder(f, password) ==
    /\ lockRun.at = "idle" /\ dropRun.at = "idle"
    /\ folders[f].exists /\ folders[f].isLocked
    /\ handleToggleFolderLock(f, password, NoModal)
    /\ UNCHANGED suspended

\* A handler starts, or goes on from the await it is at.
RandomStart ==
    /\ opsLeft > 0
    /\ opsLeft' = opsLeft - 1
    /\ UNCHANGED <<lastOp, backup, cipher, modalService, search>>
RandomStep == UNCHANGED <<lastOp, opsLeft, backup, cipher, modalService, search>>

InitRandom ==
    /\ Loaded({}, MaxPrompts,
              [p \in PromptIds |-> IF p = NumFolders + 1 THEN 1 ELSE NoFolder],
              {})
    /\ opsLeft = MaxRandomOps
    /\ Idle

NextRandom ==
    \/ \E f \in FolderIds, password \in Passwords :
          RandomStart /\ lockStart(f, password) /\ Tracked({}, {})
    \/ /\ RandomStep
       /\ lockCheckReturns
       /\ Tracked({<<"mem", lockRun.f, "passwordCheck">>}, {})
    \/ /\ RandomStep
       /\ lockBodyReturns
       /\ Tracked({<<"mem", Head(lockRun.todo), "body">>}, {})
    \/ /\ RandomStep
       /\ lockNotesReturns
       /\ Tracked({<<"mem", Head(lockRun.todo), "notes">>},
                  IF Tail(lockRun.todo) = <<>> THEN lockRun.all ELSE {})
    \/ RandomStep /\ lockBulkPutResolves /\ Tracked({}, {lockRun.f})
    \/ RandomStep /\ lockPutResolves /\ Tracked({}, {})
    \/ \E p \in PromptIds, folderId \in FolderIds \cup {NoFolder} :
          RandomStart /\ dropStart(p, folderId) /\ Tracked({}, {p})
    \/ RandomStep /\ dropPutResolves /\ Tracked({}, {})
    \/ \E f \in FolderIds, password \in Passwords :
          /\ RandomStart
          /\ unlockFolder(f, password)
          /\ Tracked({}, IF dbFolders' # dbFolders
                         THEN PromptsIn(f, prompts) \cup {f} ELSE {})

SpecRandom == InitRandom /\ [][NextRandom]_vars

\* ------------------------------------------- a process that stops
\* The times the process may stop in the middle of a handler.
MaxCrashes == 1

\* The process stops, and the application is started again: nothing of
\* memory is kept and init loads the stores.
reload ==
    /\ prompts' = dbPrompts'
    /\ folders' = dbFolders'
    /\ sessionPasswords' = [e \in FolderIds \cup PromptIds |-> NoPassword]
    /\ currentPromptId' = 0
    /\ isCreatingNew' = FALSE
    /\ newPromptLockInfo' = NoPassword
    /\ uiBody' = ""
    /\ uiNotes' = ""
    /\ uiLockChecked' = FALSE
    /\ uiLockDisabled' = FALSE
    /\ closePending' = FALSE
    /\ decryptedCache' = EmptyCache
    /\ displayedWith' = NoPassword
    /\ lockRun' = NoLockRun
    /\ dropRun' = NoDropRun
    /\ UNCHANGED <<clipboard, lastId, orig, backup, cipher, modalService, random,
                   search>>

\* The process stops in the lock branch of handleToggleFolderLock after
\* DB.bulkPut has written the prompts and before DB.put writes the folder.
crashInLock ==
    /\ lockRun.at = "bulkPut"
    /\ opsLeft > 0
    /\ opsLeft' = opsLeft - 1
    /\ lastOp' = Did("crashInLock", lockRun.f, lockRun.password, FALSE)
    /\ UNCHANGED <<dbPrompts, dbFolders>>
    /\ lockPw' = [lockPw EXCEPT ![lockRun.f] = NoPassword]
    /\ reload

\* The process stops in the unlock branch at the same place: the password
\* was accepted, the prompts are decrypted and written, the folder is not.
crashInUnlock(f, password) ==
    LET S == PromptsIn(f, prompts)
        r == DecryptEach(ArrayOrder(S), prompts, password)
    IN
    /\ lockRun.at = "idle"
    /\ folders[f].exists /\ folders[f].isLocked
    /\ ~PasswordRejected(folders[f].passwordCheck, f, password)
    /\ ~r.thrown
    /\ opsLeft > 0
    /\ opsLeft' = opsLeft - 1
    /\ lastOp' = Did("crashInUnlock", f, password, FALSE)
    /\ dbPrompts' = bulkPut(dbPrompts, S, r.ps)
    /\ UNCHANGED <<dbFolders, lockPw>>
    /\ reload

\* The label of a lock or unlock of folder f with a password: the same
\* operation with the same password as the one the process stopped in is
\* that operation run again.
Rerun(op, f, password) ==
    IF /\ lastOp.op = "crashIn" \o op
       /\ lastOp.id = f
       /\ lastOp.pw = password
    THEN Did("rerun" \o op, f, password, FALSE)
    ELSE Did(op, f, password, FALSE)

\* What a step of the handlers leaves alone.
CrashStep == UNCHANGED <<opsLeft, backup, cipher, modalService, random, search>>

\* Every stored vault with no prompt locked on its own; no handler has
\* started.
InitCrash ==
    /\ Idle
    /\ \E lockedFolders \in SUBSET FolderIds :
       \E place \in [PromptIds -> FolderIds \cup {NoFolder}] :
          Loaded(lockedFolders, MaxPrompts, place, {})
    /\ opsLeft = MaxCrashes

NextCrash ==
    \/ \E f \in FolderIds, password \in Passwords :
          /\ lastOp' = Rerun("Lock", f, password)
          /\ lockStart(f, password)
          /\ CrashStep
    \/ lockCheckReturns /\ CrashStep /\ UNCHANGED lastOp
    \/ lockBodyReturns /\ CrashStep /\ UNCHANGED lastOp
    \/ lockNotesReturns /\ CrashStep /\ UNCHANGED lastOp
    \/ lockBulkPutResolves /\ CrashStep /\ UNCHANGED lastOp
    \/ lockPutResolves /\ CrashStep /\ UNCHANGED lastOp
    \/ \E f \in FolderIds, password \in Passwords :
          /\ lastOp' = Rerun("Unlock", f, password)
          /\ unlockFolder(f, password)
          /\ CrashStep
    \/ crashInLock
    \/ \E f \in FolderIds, password \in Passwords : crashInUnlock(f, password)

SpecCrash == InitCrash /\ [][NextCrash]_vars

\* ------------------------------------------------------------- search
\* The user actions of a behaviour with searches.
MaxSearchOps == 3

\* What is typed into the search box: a character of a body, one of the
\* notes, one of neither.
Queries == {"a", "n", "z"}

\* p.body || "", cachedData.body || ""
Searchable(v) == IF Truthy(v) THEN v ELSE Str("")

\* searchableBody.toLowerCase().includes(query), for a string and a query of
\* one character in lower case.
includes(v, q) == \E i \in DOMAIN v.s : v.s[i] = q

\* line.replace(regex, "<mark>$1</mark>")
RECURSIVE Marked(_, _)
Marked(units, q) ==
    IF units = <<>> THEN ""
    ELSE (IF Head(units) = q THEN "<mark>" \o q \o "</mark>" ELSE Head(units))
         \o Marked(Tail(units), q)

\* createMatchSnippet(text, query) of a text of one short line.
createMatchSnippet(text, q) ==
    IF ~Truthy(text) \/ q = "" \/ ~includes(text, q) THEN "" ELSE Marked(text.s, q)

\* What the filter of getFilteredAndSortedPrompts searches of prompt p: the
\* fields of a prompt that is not locked, the cached plaintext of one that
\* is, nothing when it has none.
SearchableOf(p, ps) ==
    LET cachedData == decryptedCache[p]
    IN IF ~EffectivelyLocked(ps[p], folders)
       THEN [body |-> Searchable(ps[p].body), notes |-> Searchable(ps[p].notes)]
       ELSE IF cachedData.cached
       THEN [body |-> Searchable(cachedData.body), notes |-> Searchable(cachedData.notes)]
       ELSE [body |-> Str(""), notes |-> Str("")]

\* The prompts at which the filter throws: toLowerCase is no function of an
\* object.
FilterThrowsAt(q, ps) ==
    {p \in PromptIds :
        /\ ps[p].exists
        /\ \/ ~IsString(SearchableOf(p, ps).body)
           \/ ~IsString(SearchableOf(p, ps).notes)}

\* getFilteredAndSortedPrompts with a query over the prompts ps:
\* p.matchContext of every prompt that matches, up to the first at which the
\* filter throws.  Titles and tags are not kept; they are taken not to match.
getFilteredAndSortedPrompts(q, ps) ==
    [p \in PromptIds |->
        IF \/ ~ps[p].exists
           \/ \E t \in FilterThrowsAt(q, ps) : t <= p
        THEN matchContext["mem"][p]
        ELSE IF includes(SearchableOf(p, ps).body, q)
        THEN createMatchSnippet(SearchableOf(p, ps).body, q)
        ELSE IF includes(SearchableOf(p, ps).notes, q)
        THEN createMatchSnippet(SearchableOf(p, ps).notes, q)
        ELSE matchContext["mem"][p]]

\* An input event of the search box: updateUI().
searchInput(q, modal) ==
    /\ q # query
    /\ query' = q
    /\ matchContext' = IF q = "" THEN matchContext
                       ELSE [matchContext EXCEPT
                               !["mem"] = getFilteredAndSortedPrompts(q, prompts)]
    /\ IF q # "" /\ FilterThrowsAt(q, prompts) # {}
       THEN modal = NoModal /\ UNCHANGED state
       ELSE /\ UNCHANGED <<data, currentPromptId, isCreatingNew, newPromptLockInfo,
                           orig, lockPw, clipboard, lastId>>
            /\ updateUI(prompts, folders, View, modal)

\* A click on the star of a list item: prompt.isFavorite is toggled and
\* DB.put stores the object memory holds.
favouriteToggle(p) ==
    /\ prompts[p].exists
    /\ dbPrompts' = [dbPrompts EXCEPT ![p] = prompts[p]]
    /\ matchContext' = [matchContext EXCEPT !["db"][p] = matchContext["mem"][p]]
    /\ UNCHANGED <<prompts, folders, dbFolders, sessionPasswords, currentPromptId,
                   isCreatingNew, newPromptLockInfo, ui, closePending,
                   decryptedCache, clipboard, lastId, displayedWith, orig, lockPw,
                   query>>

\* handleDrop on a folder or on "all" while the search box holds query:
\* DB.put stores the object memory holds, matchContext included, and
\* updateUI() filters the list again; an exception of the filter ends it
\* before renderPromptDetails.
handleDropSearching(p, folderId, modal) ==
    LET ps == [prompts EXCEPT ![p].folderId = folderId]
    IN
    /\ prompts[p].exists
    /\ ~prompts[p].isLocked /\ ~LockedByFolder(prompts[p], folders)
    /\ IsFolderOption(folderId)
    /\ prompts' = ps
    /\ dbPrompts' = [dbPrompts EXCEPT ![p] = ps[p]]
    /\ query' = query
    /\ matchContext' = [matchContext EXCEPT
                          !["db"][p] = matchContext["mem"][p],
                          !["mem"] = IF query = "" THEN @
                                     ELSE getFilteredAndSortedPrompts(query, ps)]
    /\ UNCHANGED <<folders, dbFolders, currentPromptId, isCreatingNew,
                   newPromptLockInfo, orig, lockPw, clipboard, lastId>>
    /\ IF query # "" /\ FilterThrowsAt(query, ps) # {}
       THEN /\ modal = NoModal
            /\ UNCHANGED <<sessionPasswords, ui, closePending, decryptedCache,
                           displayedWith>>
       ELSE updateUI(ps, folders, View, modal)

\* handleDrop on "favorites" or on "locked": it returns at once.
SpecialViews == {"favorites", "locked"}
handleDropOnView(targetId) ==
    /\ targetId \in SpecialViews
    /\ UNCHANGED <<state, search>>

\* handleBulkExport of the selected prompts: JSON.stringify of the objects
\* memory holds.
handleBulkExport(selected) ==
    /\ selected # {}
    /\ \A p \in selected : prompts[p].exists
    /\ matchContext' = [matchContext EXCEPT
                          !["file"] = [p \in PromptIds |->
                                         IF p \in selected
                                         THEN matchContext["mem"][p] ELSE ""]]
    /\ UNCHANGED <<state, query>>

\* A user action of a behaviour with searches.
SearchAct(label) ==
    Budget(label) /\ UNCHANGED <<backup, cipher, modalService, suspended, random>>

InitSearch ==
    /\ Idle
    /\ \E lockedFolders \in SUBSET FolderIds :
       \E place \in [PromptIds -> FolderIds \cup {NoFolder}] :
       \E lockedPrompts \in SUBSET PromptIds :
          /\ \A p \in PromptIds : place[p] \in lockedFolders => p \notin lockedPrompts
          /\ Loaded(lockedFolders, MaxPrompts, place, lockedPrompts)
    /\ opsLeft = MaxSearchOps

NextSearch ==
    \/ \E p \in PromptIds, modal \in ModalResults :
          /\ SearchAct(IF /\ EffectivelyLocked(prompts[p], folders)
                          /\ sessionPasswords[OwnerId(p, prompts, folders)] = NoPassword
                          /\ modal.password = NoPassword
                       THEN Did("openCancel", p, NoPassword, FALSE)
                       ELSE Did("open", p, modal.password, FALSE))
          /\ handlePromptListClick(p, modal)
          /\ UNCHANGED search
    \/ \E q \in Queries \cup {""}, modal \in ModalResults :
          /\ SearchAct(Did("search", 0, NoPassword, FALSE))
          /\ searchInput(q, modal)
    \/ \E p \in PromptIds :
          /\ SearchAct(Did("favourite", p, NoPassword, FALSE))
          /\ favouriteToggle(p)
    \/ \E selected \in SUBSET PromptIds :
          /\ SearchAct([Did("bulkExport", 0, NoPassword, FALSE)
                          EXCEPT !.selected = selected])
          /\ handleBulkExport(selected)
    \/ \E p \in PromptIds, folderId \in FolderIds \cup {NoFolder},
          modal \in ModalResults :
          /\ SearchAct(Did("drop", 0, NoPassword, FALSE))
          /\ handleDropSearching(p, folderId, modal)
    \/ \E targetId \in SpecialViews :
          /\ SearchAct(Did("dropOnView", 0, NoPassword, FALSE))
          /\ handleDropOnView(targetId)

SpecSearch == InitSearch /\ [][NextSearch]_vars

\* ------------------------------------------- a close and a later open
\* The number of user actions in a behaviour that starts from InitClose.
MaxCloseOps == 3

\* The click on list item p reaches openPromptDetailsView (line 2161): the
\* password dialog, if one is shown, is not cancelled and the caching loop
\* raises no exception.
Opens(p, modal) ==
    LET asked == /\ EffectivelyLocked(prompts[p], folders)
                 /\ sessionPasswords[OwnerId(p, prompts, folders)] = NoPassword
    IN /\ ~(asked /\ Cancelled(modal))
       /\ ~(asked /\ CacheThrows(p, prompts, folders, modal.password))

\* The stored vault of InitDeep and a few user actions.
InitClose ==
    /\ Idle
    /\ Loaded({1}, MaxPrompts,
              [p \in PromptIds |->
                 IF p = NumFolders + MaxPrompts THEN NoFolder ELSE 1],
              {NumFolders + MaxPrompts})
    /\ opsLeft = MaxCloseOps

\* The user closes the detail view, opens one and the timer of
\* _internalCloseDetailsView fires, in any order; the label of an action
\* that opens a view says whether the timer was armed at the time.
NextClose ==
    \/ \E modal \in ModalResults :
          /\ Act(Did("close", 0, NoPassword, FALSE))
          /\ handleSidebarNavClick(modal)
    \/ \E p \in PromptIds, modal \in ModalResults :
          /\ Act(IF Opens(p, modal)
                 THEN [Did("open", p, modal.password, FALSE)
                          EXCEPT !.closing = closePending]
                 ELSE Did("openCancel", p, NoPassword, FALSE))
          /\ handlePromptListClick(p, modal)
    \/ /\ Act([Did("new", 0, NoPassword, FALSE) EXCEPT !.closing = closePending])
       /\ handleNewPromptClick
    \/ closeTimer /\ UNCHANGED <<lastOp, opsLeft, aux>>

SpecClose == InitClose /\ [][NextClose]_vars

\* ------------------------------------------------------------ properties
\* The store or the memory copy of a prompt, by name.
Copies == {prompts, dbPrompts}

\* The password of the entity that governs prompt p: the last one it was
\* locked with.
OwnerPassword(p, ps) == lockPw[OwnerId(p, ps, folders)]

\* Value v holds the text the user gave, as it is or under password.
Recoverable(v, text, password) ==
    \/ v = Str(text)
    \/ IsCiphertext(v) /\ password # NoPassword /\ decrypt(v, password) = Str(text)

\* Value v is empty or a ciphertext.
Confidential(v) == v = Str("") \/ IsCiphertext(v)

\* A step that is user action op.
Step(op) == opsLeft' # opsLeft /\ lastOp'.op = op

\* C1 (no data loss): in memory and in the store, the body and the notes of
\* every prompt can be recovered as the text the user gave them, either as
\* plaintext or as a ciphertext under the password of the prompt's effective
\* owner.
NoDataLoss ==
    \A ps \in Copies : \A p \in PromptIds :
       ps[p].exists =>
          /\ Recoverable(ps[p].body, orig[p].body,
                         IF EffectivelyLocked(ps[p], folders)
                         THEN OwnerPassword(p, ps) ELSE NoPassword)
          /\ Recoverable(ps[p].notes, orig[p].notes,
                         IF EffectivelyLocked(ps[p], folders)
                         THEN OwnerPassword(p, ps) ELSE NoPassword)

\* C2 (confidentiality invariant): in memory and in the store, the non-empty
\* body and notes of a prompt that is effectively locked are ciphertext.
LockedIsCiphertext ==
    \A ps \in Copies : \A p \in PromptIds :
       ps[p].exists /\ EffectivelyLocked(ps[p], folders) =>
          Confidential(ps[p].body) /\ Confidential(ps[p].notes)

\* C3 (plaintext invariant): in memory and in the store, the body and notes
\* of a prompt that is not effectively locked are plaintext strings.
UnlockedIsPlaintext ==
    \A ps \in Copies : \A p \in PromptIds :
       ps[p].exists /\ ~EffectivelyLocked(ps[p], folders) =>
          IsString(ps[p].body) /\ IsString(ps[p].notes)

\* C4 (folder round trip): locking an unlocked folder makes it locked and
\* the non-empty body and notes of its prompts ciphertext; unlocking it then
\* with the same password gives every prompt of the folder the body and
\* notes it had before the lock, and leaves the folder unlocked with no
\* passwordCheck.
FolderRoundTrip ==
    [][/\ Step("folderLock")
          => /\ folders'[lastOp'.id].isLocked
             /\ \A p \in PromptsIn(lastOp'.id, prompts) :
                   Confidential(prompts'[p].body) /\ Confidential(prompts'[p].notes)
       /\ (/\ Step("folderUnlock")
           /\ lastOp.op = "folderLock"
           /\ lastOp'.id = lastOp.id
           /\ ~lastOp'.wrong)
          => /\ \A p \in PromptsIn(lastOp.id, lastOp.before) :
                   /\ prompts'[p].body = lastOp.before[p].body
                   /\ prompts'[p].notes = lastOp.before[p].notes
                   /\ dbPrompts'[p].body = lastOp.before[p].body
                   /\ dbPrompts'[p].notes = lastOp.before[p].notes
             /\ ~folders'[lastOp.id].isLocked
             /\ folders'[lastOp.id].passwordCheck = Null]_vars

\* The oracle of a locked entity: its passwordCheck is a ciphertext that
\* decrypts to String(id) under the last lock password and under no other.
OracleOf(e, id) ==
    e.exists /\ e.isLocked =>
       /\ IsCiphertext(e.passwordCheck)
       /\ \A password \in PasswordInputs :
             decrypt(e.passwordCheck, password) = IdString(id)
                <=> password = lockPw[id]

WrongPasswordNeverMutates ==
    [][(opsLeft' # opsLeft /\ lastOp'.wrong) => UNCHANGED data]_vars

\* A wrong password was given to unlock a locked folder that holds a prompt.
WrongPasswordWitness ==
    /\ lastOp.wrong
    /\ lastOp.op = "folderUnlock"
    /\ folders[lastOp.id].isLocked
    /\ PromptsIn(lastOp.id, prompts) # {}

\* C7 (per-item skip): in a bulk move that passed the destination check,
\* a selected prompt whose source password is wrong or withheld keeps its
\* fields, and every other selected prompt is moved.
PerItemSkip ==
    [][(Step("move") /\ ~lastOp'.wrong /\ lastOp'.skipped # {})
       => /\ \A p \in lastOp'.skipped :
                prompts'[p] = prompts[p] /\ dbPrompts'[p] = dbPrompts[p]
          /\ \A p \in lastOp'.selected \ lastOp'.skipped :
                /\ prompts'[p].folderId = lastOp'.dest
                /\ dbPrompts'[p].folderId = lastOp'.dest]_vars

\* C8 (move out of a locked folder): a prompt of a locked folder that a bulk
\* move takes, with the folder's password, to a destination that is not
\* locked has the plaintext the user gave as body and notes, isLocked false,
\* passwordCheck null and the destination as folderId.
MoveOutOfLocked ==
    [][(Step("move") /\ ~lastOp'.wrong
        /\ ~(lastOp'.dest # NoFolder /\ folders[lastOp'.dest].isLocked))
       => \A p \in lastOp'.selected \ lastOp'.skipped :
             LockedByFolder(prompts[p], folders) =>
                \A ps \in {prompts', dbPrompts'} :
                   /\ ps[p].body = Str(orig[p].body)
                   /\ ps[p].notes = Str(orig[p].notes)
                   /\ ~ps[p].isLocked
                   /\ ps[p].passwordCheck = Null
                   /\ ps[p].folderId = lastOp'.dest]_vars

\* C9 (move into a locked destination): a bulk move into a locked folder
\* changes nothing if the destination password is wrong or empty; else the
\* non-empty body and notes of every prompt it moves are ciphertexts that
\* decrypt, under the destination's password, to the text the user gave.
MoveIntoLocked ==
    [][(Step("move") /\ lastOp'.dest # NoFolder /\ folders[lastOp'.dest].isLocked)
       => IF lastOp'.wrong
          THEN UNCHANGED data
          ELSE \A p \in lastOp'.selected \ lastOp'.skipped :
                  \A ps \in {prompts', dbPrompts'} :
                     /\ ps[p].folderId = lastOp'.dest
                     /\ Confidential(ps[p].body)
                     /\ Confidential(ps[p].notes)
                     /\ decrypt(ps[p].body, lockPw[lastOp'.dest])
                           = Str(orig[p].body)
                     /\ decrypt(ps[p].notes, lockPw[lastOp'.dest])
                           = Str(orig[p].notes)]_vars

\* C10 (moving clears the own lock): a prompt that a bulk move, a drop on a
\* folder or a save with another folder takes to a different folder has
\* isLocked false and no passwordCheck afterwards.
MovingClearsOwnLock ==
    [][(Step("move") \/ Step("drop") \/ Step("save"))
       => \A p \in PromptIds :
             prompts[p].exists /\ prompts'[p].folderId # prompts[p].folderId =>
                \A ps \in {prompts', dbPrompts'} :
                   ~ps[p].isLocked /\ ~IsCiphertext(ps[p].passwordCheck)]_vars

\* Prompt q is in a folder that is locked.
InLockedFolder(q) ==
    /\ prompts[q].exists
    /\ prompts[q].folderId # NoFolder
    /\ folders[prompts[q].folderId].exists
    /\ folders[prompts[q].folderId].isLocked

\* The oracle of folder f accepts password.
FolderAccepts(f, password) ==
    decrypt(folders[f].passwordCheck, password) = IdString(f)

\* The password a bulk move that passed the destination check encrypts
\* with: that of the destination if it is locked.
DestinationPassword ==
    IF lastOp'.dest # NoFolder /\ folders[lastOp'.dest].isLocked
    THEN lockPw[lastOp'.dest] ELSE NoPassword

\* C11 (folder-lock dominance): for a prompt q in a locked folder f,
\* whatever q.isLocked and q.passwordCheck are: an open asks for a password
\* exactly if none is remembered under f's key, takes only one that f's
\* oracle accepts and remembers it under f's key, never under q's; a quick
\* copy copies q's body exactly if f's oracle accepts the password given; a
\* bulk move changes q only with a password f's oracle accepts; and every
\* password a handler remembers (an open or a re-render of the open view)
\* is remembered under the key of a locked folder, or of a locked prompt
\* whose folder is not locked, whose oracle accepts it.
FolderLockDominance ==
    [][/\ \A q \in PromptIds :
             InLockedFolder(q) =>
                LET f == prompts[q].folderId
                    copied == decrypt(prompts[q].body, lastOp'.pw)
                IN /\ (Step("open") /\ lastOp'.id = q)
                      => /\ sessionPasswords'[q] = sessionPasswords[q]
                         /\ IF sessionPasswords[f] # NoPassword
                            THEN /\ lastOp'.pw = NoPassword
                                 /\ sessionPasswords'[f] = sessionPasswords[f]
                            ELSE /\ FolderAccepts(f, lastOp'.pw)
                                 /\ sessionPasswords'[f]
                                       \in {NoPassword, lastOp'.pw}
                   /\ (Step("quickCopy") /\ lastOp'.id = q)
                      => clipboard' = IF FolderAccepts(f, lastOp'.pw)
                                         /\ copied # Throw
                                      THEN copied ELSE clipboard
                   /\ (/\ Step("move")
                       /\ q \in lastOp'.selected
                       /\ prompts'[q] # prompts[q])
                      => \E password \in Passwords :
                            /\ FolderAccepts(f, password)
                            /\ prompts'[q].body
                                  = IF DestinationPassword # NoPassword
                                    THEN encrypt(decrypt(prompts[q].body, password),
                                                 DestinationPassword)
                                    ELSE decrypt(prompts[q].body, password)
       /\ \A f \in FolderIds :
             sessionPasswords'[f] # sessionPasswords[f]
                => /\ folders'[f].exists /\ folders'[f].isLocked
                   /\ decrypt(folders'[f].passwordCheck, sessionPasswords'[f])
                         = IdString(f)
       /\ \A q \in PromptIds :
             sessionPasswords'[q] # sessionPasswords[q]
                => /\ prompts'[q].exists /\ prompts'[q].isLocked
                   /\ ~(/\ prompts'[q].folderId # NoFolder
                        /\ folders'[prompts'[q].folderId].isLocked)
                   /\ decrypt(prompts'[q].passwordCheck, sessionPasswords'[q])
                         = IdString(q)]_vars

\* A prompt with a lock of its own, in a folder locked with another
\* password, has just been opened with the folder's password.
FolderLockDominanceWitness ==
    /\ lastOp.op = "open"
    /\ currentPromptId = lastOp.id
    /\ InLockedFolder(lastOp.id)
    /\ prompts[lastOp.id].isLocked
    /\ IsCiphertext(prompts[lastOp.id].passwordCheck)
    /\ lastOp.pw # NoPassword
    /\ FolderAccepts(prompts[lastOp.id].folderId, lastOp.pw)
    /\ decrypt(prompts[lastOp.id].passwordCheck, lastOp.pw) = Null

\* C12 (no prompt-level lock under a locked folder): no step makes isLocked
\* true on, or stamps a passwordCheck on, a prompt whose folder is locked:
\* neither the lock switch of an existing prompt nor the save of a new
\* prompt with a pending lock.
NoPromptLockUnderLockedFolder ==
    [][\A p \in PromptIds :
          (/\ prompts'[p].exists
           /\ LockedByFolder(prompts'[p], folders)
           /\ LockedByFolder(prompts'[p], folders'))
          => /\ prompts'[p].isLocked => prompts[p].exists /\ prompts[p].isLocked
             /\ IsCiphertext(prompts'[p].passwordCheck)
                   => prompts'[p].passwordCheck = prompts[p].passwordCheck]_vars

\* C13 (validate before display): the password a handler decrypted the
\* shown body and notes with is one that the oracle of the shown prompt's
\* effective owner accepts in the state the handler leaves.
ValidateBeforeDisplay ==
    displayedWith # NoPassword
       => /\ currentPromptId # 0
          /\ Validates(OwnerCheck(currentPromptId, prompts, folders),
                       OwnerId(currentPromptId, prompts, folders), displayedWith)

\* C14 (save re-encrypts locked content): the save of an existing prompt
\* whose effective owner is locked, into the folder it is in, stores body
\* and notes, in memory and in the store, as ciphertexts that decrypt under
\* the owner's password to what the view showed; whether the password was
\* remembered or only entered to open the prompt.
SaveReencryptsLocked ==
    [][(/\ Step("save")
        /\ ~isCreatingNew
        /\ EffectivelyLocked(prompts[currentPromptId], folders)
        /\ prompts'[currentPromptId].folderId = prompts[currentPromptId].folderId)
       => \A ps \in {prompts', dbPrompts'} :
             LET saved == ps[currentPromptId]
                 password == lockPw[OwnerId(currentPromptId, prompts, folders)]
             IN /\ Confidential(saved.body)
                /\ Confidential(saved.notes)
                /\ decrypt(saved.body, password) = Str(uiBody)
                /\ decrypt(saved.notes, password) = Str(uiNotes)]_vars

\* The prompts a step creates.
Created == {p \in PromptIds : ~prompts[p].exists /\ prompts'[p].exists}

\* C15 (new prompt with a pending lock): the save of a new prompt creates
\* exactly one prompt; with a pending lock it has isLocked true, its
\* non-empty body and notes are ciphertexts of what was typed under the
\* pending password, and its passwordCheck decrypts under that password to
\* String(id); with none it is unlocked plaintext with no passwordCheck.  A
\* new prompt whose switch is off, as after a cancelled password prompt,
\* has no pending lock.
NewPromptPendingLock ==
    [][/\ (Step("save") /\ isCreatingNew)
          => /\ Cardinality(Created) = 1
             /\ \A p \in Created : \A ps \in {prompts', dbPrompts'} :
                   IF newPromptLockInfo # NoPassword
                   THEN /\ ps[p].isLocked
                        /\ Confidential(ps[p].body)
                        /\ Confidential(ps[p].notes)
                        /\ decrypt(ps[p].body, newPromptLockInfo)
                              = Str(orig'[p].body)
                        /\ decrypt(ps[p].notes, newPromptLockInfo)
                              = Str(orig'[p].notes)
                        /\ IsCiphertext(ps[p].passwordCheck)
                        /\ decrypt(ps[p].passwordCheck, newPromptLockInfo)
                              = IdString(p)
                   ELSE /\ ~ps[p].isLocked
                        /\ ps[p].body = Str(orig'[p].body)
                        /\ ps[p].notes = Str(orig'[p].notes)
                        /\ ~IsCiphertext(ps[p].passwordCheck)
       /\ (isCreatingNew' /\ ~uiLockChecked') => newPromptLockInfo' = NoPassword
      ]_vars

\* A new prompt with a pending lock and a body has just been saved.
NewPromptPendingLockWitness ==
    /\ lastOp.op = "save"
    /\ lastId > NumFolders + 1
    /\ prompts[lastId].exists
    /\ prompts[lastId].isLocked
    /\ IsCiphertext(prompts[lastId].body)
    /\ dbPrompts[lastId] = prompts[lastId]

\* C16 (delete folder, move out): for a locked folder, a wrong password
\* changes no prompt and no folder; a right one leaves every prompt that
\* was in the folder, in memory and in the store, with no folder and with
\* the plaintext the user gave as body and notes, and removes the folder
\* from memory and from the store.
DeleteFolderMoveOut ==
    [][(Step("deleteFolderMove") /\ folders[lastOp'.id].isLocked)
       => IF lastOp'.wrong
          THEN UNCHANGED data
          ELSE /\ \A p \in PromptsIn(lastOp'.id, prompts) :
                     \A ps \in {prompts', dbPrompts'} :
                        /\ ps[p].folderId = NoFolder
                        /\ ps[p].body = Str(orig[p].body)
                        /\ ps[p].notes = Str(orig[p].notes)
               /\ ~folders'[lastOp'.id].exists
               /\ ~dbFolders'[lastOp'.id].exists]_vars

CancelDuringOpen ==
    [][(Step("openCancel") /\ currentPromptId = 0 /\ ~isCreatingNew)
       => /\ currentPromptId' = 0
          /\ sessionPasswords' = sessionPasswords
          /\ decryptedCache' = EmptyCache]_vars

\* C19 (cache invalidation on close): with no detail view open and no
\* close under way, the decrypted cache is empty.
CacheEmptyWhenClosed ==
    (currentPromptId = 0 /\ ~isCreatingNew /\ ~closePending)
       => decryptedCache = EmptyCache

\* C20 (cache population on open): after an open that shows the content of
\* a prompt of a locked folder, the decrypted cache has an entry for every
\* prompt of that folder; after one that shows a prompt with a lock of its
\* own, it has an entry for that prompt and the other entries are as before.
CachePopulatedOnOpen ==
    [][(/\ Step("open")
        /\ currentPromptId' = lastOp'.id
        /\ displayedWith' # NoPassword)
       => IF LockedByFolder(prompts[lastOp'.id], folders)
          THEN \A p \in PromptsIn(prompts[lastOp'.id].folderId, prompts) :
                  decryptedCache'[p].cached
          ELSE /\ decryptedCache'[lastOp'.id].cached
               /\ \A p \in PromptIds \ {lastOp'.id} :
                     decryptedCache'[p] = decryptedCache[p]]_vars

\* C22 (password prompts in a bulk move): whatever the user answers, one
\* bulk move asks for a source password at most once for each locked owner
\* (folder or prompt with a lock of its own) among the selected prompts, and
\* never for an owner whose password is in the session password cache.
MovePasswordPrompts ==
    [][(Step("move") /\ ~lastOp'.wrong)
       => \A oldPass \in [PromptIds -> PasswordInputs] :
             LET asked == MoveEach(ArrayOrder(lastOp'.selected), prompts,
                                   lastOp'.dest, NoPassword, oldPass).asked
             IN \A owner \in FolderIds \cup PromptIds :
                   LET for == {p \in asked :
                                  OwnerId(p, prompts, folders) = owner}
                   IN /\ Cardinality(for) <= 1
                      /\ sessionPasswords[owner] # NoPassword => for = {}]_vars

\* C24 (write-through): after every operation, completed or aborted, the
\* prompts and the folders of the store are those of memory, field by field.
WriteThrough ==
    /\ dbPrompts = prompts
    /\ dbFolders = folders

\* C28 (null is never empty content): no prompt holds null as body or notes,
\* in memory or in the store; no entry of the decrypted cache holds null;
\* and the detail view never shows fields filled from a decrypt that
\* returned null.
NullNeverContent ==
    /\ \A ps \in Copies : \A p \in PromptIds :
          ps[p].exists => ps[p].body # Null /\ ps[p].notes # Null
    /\ \A p \in PromptIds :
          decryptedCache[p].cached
             => decryptedCache[p].body # Null /\ decryptedCache[p].notes # Null
    /\ (/\ displayedWith # NoPassword
        /\ currentPromptId # 0
        /\ prompts[currentPromptId].exists)
          => /\ decrypt(prompts[currentPromptId].body, displayedWith) # Null
             /\ decrypt(prompts[currentPromptId].notes, displayedWith) # Null

\* ---------------------------------------------------------------- C21
\* Every string a store or the backup file holds.
PersistedStrings ==
    LET Fields(pr) == {pr.body, pr.notes, pr.passwordCheck}
        values == UNION {Fields(dbPrompts[p]) : p \in PromptIds}
                  \cup {dbFolders[f].passwordCheck : f \in FolderIds}
                  \cup (IF exportFile.exists
                        THEN UNION {Fields(exportFile.prompts[p]) : p \in PromptIds}
                             \cup {exportFile.folders[f].passwordCheck : f \in FolderIds}
                        ELSE {})
    IN {Flat(v.s) : v \in {w \in values : IsString(w)}} \cup dbTags
       \cup (IF exportFile.exists THEN exportFile.globalTags ELSE {})

\* The passwords the session holds: the cache and the pending lock of a new
\* prompt.
HeldPasswords ==
    ({sessionPasswords[e] : e \in FolderIds \cup PromptIds} \cup {newPromptLockInfo})
    \ {NoPassword}

ExportImportRoundTrip ==
    [][Step("import") =>
          /\ dbPrompts' = exportFile.stores.prompts
          /\ dbFolders' = exportFile.stores.folders
          /\ dbTags' = exportFile.stores.tags
          /\ prompts' = dbPrompts'
          /\ folders' = dbFolders'
          /\ globalTags' = dbTags']_vars

\* An import has overwritten a store that differed from the file, which
\* holds a locked folder with an encrypted prompt.
ExportImportRoundTripWitness ==
    /\ lastOp.op = "import"
    /\ lastOp.before # dbPrompts
    /\ \E p \in PromptIds :
          /\ LockedByFolder(dbPrompts[p], dbFolders)
          /\ IsCiphertext(dbPrompts[p].body)

\* ---------------------------------------------------------------- C27
\* C27: CryptoService never throws.  Whatever it is given (a ciphertext, a
\* string, the empty string, null, undefined; any password), encrypt and
\* decrypt return a value and raise no exception.
CipherNeverThrows == cipherOut.value # Throw

\* ---------------------------------------------------------------- C30
\* C30: for every string s and every password p, the empty ones included,
\* decrypt(encrypt(s, p), p) is s.
EncryptionRoundTrip ==
    (cipherOut.op = "decryptEncrypted" /\ IsString(cipherIn))
        => cipherOut.value = cipherIn

\* ---------------------------------------------------------------- C25
\* C25: failures are surfaced.  An alert that a handler asks for, after a
\* wrong password or right after the password dialog was dismissed, is
\* displayed, and acknowledged before the handler returns; none is dropped.
FailuresSurfaced ==
    /\ outcome.alert # "dropped"
    /\ caller = NoCaller => outcome.alert \in {"none", "acknowledged"}

\* ---------------------------------------------------------------- C26
\* What the validated prompt may resolve with: the password that validate
\* accepted, or null if the user cancelled.
ValidatedResult ==
    \/ outcome.result = NotResolved
    \/ /\ outcome.result.k = "object"
       /\ Validates(CheckOf("open"), CheckedId("open"), outcome.result.password)
    \/ outcome.result = ResolvedNull /\ outcome.cancelled

\* C26: a password prompt with a validate function stays open over failed
\* and empty attempts; it resolves only with {password, remember} for a
\* password that validate accepted, or with null when the user cancels.
ValidatedPrompt ==
    [][/\ ValidatedResult'
       /\ (dialog.type = "validated" /\ dialog'.type # "validated")
             => (outcome'.result.k = "object" \/ outcome'.cancelled)]_vars

\* ---------------------------------------------------------------- C23
\* C23: vault operations do not interleave.  While one is suspended at a
\* password prompt, a crypto call or a store write, no other starts; each
\* runs to completion or aborts before another begins.
NoInterleaving == ~(lockRun.at # "idle" /\ dropRun.at # "idle")


PairIn(pl, ps, fs, dps, dfs, pairs) ==
    LET v == IF pl[2] \in FolderIds
             THEN (IF pl[1] = "mem" THEN fs ELSE dfs)[pl[2]].passwordCheck
             ELSE LET pr == (IF pl[1] = "mem" THEN ps ELSE dps)[pl[2]]
                  IN CASE pl[3] = "body" -> pr.body
                       [] pl[3] = "notes" -> pr.notes
                       [] OTHER -> pr.passwordCheck
    IN IF IsCiphertext(v) THEN pairs[pl] ELSE 0

NoReTransform ==
    [][\A p \in PromptIds :
          (prompts[p].exists /\ prompts'[p].exists)
             => /\ (/\ IsCiphertext(prompts[p].body)
                    /\ IsCiphertext(prompts'[p].body))
                      => prompts'[p].body.s # EncodeText(prompts[p].body)
                /\ (/\ IsCiphertext(prompts[p].notes)
                    /\ IsCiphertext(prompts'[p].notes))
                      => prompts'[p].notes.s # EncodeText(prompts[p].notes)]_vars

\* The folder and its prompts are as a lock (locked = TRUE) or an unlock of
\* folder f with the password leaves them when nothing stops it: in memory
\* and in the store, each prompt of the folder holds what the user gave it,
\* as ciphertext under the password or as plaintext.
AsUninterrupted(f, password, locked) ==
    /\ folders = dbFolders
    /\ folders[f].isLocked = locked
    /\ locked => ~PasswordRejected(folders[f].passwordCheck, f, password)
    /\ \A p \in PromptsIn(f, prompts) \cup PromptsIn(f, dbPrompts) :
          /\ prompts[p] = dbPrompts[p]
          /\ prompts[p].body = encrypt(Str(orig[p].body),
                                       IF locked THEN password ELSE NoPassword)
          /\ prompts[p].notes = encrypt(Str(orig[p].notes),
                                        IF locked THEN password ELSE NoPassword)

\* C34: crash recovery of folder lock and unlock.  If the process stops
\* between the bulk write of the prompts and the write of the folder, then
\* after the restart the same lock or unlock with the same password, run
\* again to its end, leaves the state an uninterrupted run leaves, with the
\* content of every prompt of the folder recoverable.
CrashRecovery ==
    /\ (lastOp.op = "rerunLock" /\ lockRun.at = "idle")
          => AsUninterrupted(lastOp.id, lastOp.pw, TRUE)
    /\ lastOp.op = "rerunUnlock"
          => AsUninterrupted(lastOp.id, lastOp.pw, FALSE)

\* C35: the session password cache is fresh.  Every entry belongs to a
\* folder or a prompt that exists and is locked now, and its password is one
\* the entity's passwordCheck accepts: decrypt(passwordCheck, password) is
\* the entity's id as a string.
SessionCacheFresh ==
    \A e \in FolderIds \cup PromptIds :
       sessionPasswords[e] # NoPassword
          => LET entity == IF e \in FolderIds THEN folders[e] ELSE prompts[e]
             IN /\ entity.exists
                /\ entity.isLocked
                /\ decrypt(entity.passwordCheck, sessionPasswords[e]) = IdString(e)

\* C36: no plaintext leaks through a derived field.  While a prompt is
\* locked, the matchContext the store holds for it, and the one a bulk
\* export writes for it, hold no text taken from its decrypted body or
\* notes: they are empty.
NoDerivedLeak ==
    [][\A p \in PromptIds :
          /\ (/\ dbPrompts'[p].exists
              /\ EffectivelyLocked(dbPrompts'[p], dbFolders'))
                => matchContext'["db"][p] = ""
          /\ (/\ Step("bulkExport")
              /\ prompts[p].exists
              /\ EffectivelyLocked(prompts[p], folders))
                => matchContext'["file"][p] = ""]_vars

\* C37 (a pending close never clobbers a later open): when the timer of
\* _internalCloseDetailsView fires and the last thing the user did was to
\* open a detail view while that timer was armed, the timer leaves
\* currentPromptId, isCreatingNew, newPromptLockInfo and decryptedCache of
\* the view as they are.
PendingCloseKeepsLaterOpen ==
    [][(/\ closePending /\ ~closePending'
        /\ opsLeft' = opsLeft
        /\ lastOp.op \in {"open", "new"}
        /\ lastOp.closing)
       => /\ currentPromptId' = currentPromptId
          /\ isCreatingNew' = isCreatingNew
          /\ newPromptLockInfo' = newPromptLockInfo
          /\ decryptedCache' = decryptedCache]_vars

\* C38 (drag-and-drop frame): a drop on a folder or on "all" moves a prompt
\* that exists and is neither locked itself nor in a locked folder; it
\* changes nothing but the folderId of that prompt, in memory and in the
\* store (dateModified is not part of the model), and leaves the other
\* fields of its stored record, the other prompts and the folders as they
\* are; a drop on "favorites" or "locked" changes nothing.
DropFrame ==
    [][/\ Step("drop")
          => \E p \in PromptIds :
                /\ prompts[p].exists
                /\ ~EffectivelyLocked(prompts[p], folders)
                /\ prompts' = [prompts EXCEPT
                                 ![p].folderId = prompts'[p].folderId]
                /\ dbPrompts' = [dbPrompts EXCEPT
                                   ![p].folderId = prompts'[p].folderId]
                /\ matchContext'["db"] = matchContext["db"]
                /\ folders' = folders
                /\ dbFolders' = dbFolders
       /\ Step("dropOnView")
          => /\ UNCHANGED <<prompts, folders, dbPrompts, dbFolders>>
             /\ matchContext'["db"] = matchContext["db"]]_vars

\* C39 (partial import keeps existing data): a confirmed import of a file
\* that lacks prompts, folders or globalTags leaves every stored prompt,
\* folder and tag as it is and adds nothing but records of the file whose
\* ids the store did not hold; a confirmed import of a file that has all
\* three leaves in the stores exactly the records of the file.
PartialImportKeeps ==
    [][/\ Step("importPartial")
          => /\ \A p \in PromptIds :
                   IF dbPrompts[p].exists
                   THEN dbPrompts'[p] = dbPrompts[p]
                   ELSE dbPrompts'[p].exists
                           => dbPrompts'[p] = parsePrompt(exportFile.prompts[p])
             /\ \A f \in FolderIds :
                   IF dbFolders[f].exists
                   THEN dbFolders'[f] = dbFolders[f]
                   ELSE dbFolders'[f].exists
                           => dbFolders'[f] = parseFolder(exportFile.folders[f])
             /\ dbTags \subseteq dbTags'
             /\ dbTags' \subseteq dbTags \cup exportFile.globalTags
       /\ Step("import")
          => /\ dbPrompts' = [p \in PromptIds |->
                                parsePrompt(exportFile.prompts[p])]
             /\ dbFolders' = [f \in FolderIds |->
                                parseFolder(exportFile.folders[f])]
             /\ dbTags' = exportFile.globalTags]_vars

\* A partial import has just kept a stored prompt for which the file has
\* another record, and added a folder the store did not hold.
PartialImportKeepsWitness ==
    /\ lastOp.op = "importPartial"
    /\ \E p \in PromptIds \cap lastOp.had :
          /\ exportFile.prompts[p].exists
          /\ parsePrompt(exportFile.prompts[p]) # dbPrompts[p]
    /\ \E f \in FolderIds \ lastOp.had : dbFolders[f].exists

====
